---------------------------- MODULE Spec2Model ----------------------------
(***************************************************************************)
(* Self-update protocol of Chiv2AdminDashboard                             *)
(* (src/C2ServerAPI/core/autoupdater.py).                                  *)
(*                                                                         *)
(* Two process roles cooperate through process arguments and the file      *)
(* system: the main role (handle_update_flow without --apply-update)       *)
(* checks the release feed and spawns a copy of itself as the updater;     *)
(* the updater role (_run_apply_update) downloads the artifact, renames    *)
(* the target aside to target+".old", renames the download in, writes the  *)
(* state file and relaunches the application.                              *)
(*                                                                         *)
(* Python values: None is the empty tuple << >>, an optional string s is   *)
(* <<s>>, a version is a 4-tuple of integers, a dict is a function from    *)
(* its keys.  A path is the string the code uses; target + ".old" is the   *)
(* string concatenation the code performs.                                 *)
(***************************************************************************)
EXTENDS Integers, Sequences, FiniteSets, TLC

(* ------------------------------ bounds -------------------------------- *)

\* Application executables run at Target followed by at most MaxOld ".old".
MaxOld == 1
\* Number of non-empty chunks r.read() yields before the empty one.
NumChunks == 2
\* Failed os.replace attempts _replace_with_retry makes before its deadline.
MaxTries == 2
\* Releases in a feed handed to find_latest_exe_asset on its own.
MaxReleases == 2
\* Calls made on the database.
MaxCalls == 4
\* Sessions that are open at the same time.
MaxSessions == 2

(* ------------------------- Python value helpers ------------------------ *)

None == << >>

Some(s) == << s >>

\* Python truthiness of an optional string: None and "" are falsy.
Truthy(o) == o # None /\ o # Some("")

\* str(x) of an optional string.
Str(o) == IF o = None THEN "None" ELSE o[1]

\* x or y for optional strings.
Or(x, y) == IF Truthy(x) THEN x ELSE y

\* dict.get(key) on a dict modelled as a function.
Get(d, k) == IF k \in DOMAIN d THEN d[k] ELSE None

EmptyDict == [k \in {} |-> None]

\* d[k] = v on a dict.
Put(d, k, v) == [x \in (DOMAIN d) \cup {k} |-> IF x = k THEN v ELSE d[x]]

\* tok in argv
InArgv(tok, argv) == \E i \in 1..Len(argv) : argv[i] = tok

\* The index of the last tok of argv, 0 when absent.
IndexOf_Last(argv, tok) ==
    IF InArgv(tok, argv)
    THEN CHOOSE i \in 1..Len(argv) :
            /\ argv[i] = tok
            /\ \A j \in (i + 1)..Len(argv) : argv[j] # tok
    ELSE 0

\* argv.index(tok) (1-based), 0 when absent.
IndexOf(argv, tok) ==
    IF InArgv(tok, argv)
    THEN CHOOSE i \in 1..Len(argv) :
            /\ argv[i] = tok
            /\ \A j \in 1..(i - 1) : argv[j] # tok
    ELSE 0

(* ------------------------------ versions ------------------------------- *)

NoVer == << >>

V1 == << 1, 0, 0, 0 >>

V2 == << 1, 2, 0, 0 >>

\* A comparison that lets any greater component decide.
TupleGT_AnyComponent(a, b) == \E i \in 1..4 : a[i] > b[i]

\* Python's tuple comparison a > b on two 4-tuples of integers.
TupleGT(a, b) ==
    \E i \in 1..4 :
        /\ a[i] > b[i]
        /\ \A j \in 1..(i - 1) : a[j] = b[j]

\* ".".join(map(str, tuple(v)))
DotJoin(v) ==
    ToString(v[1]) \o "." \o ToString(v[2]) \o "." \o ToString(v[3])
        \o "." \o ToString(v[4])

(* -------------------------------- text --------------------------------- *)

\* A text the code inspects character by character (an asset name, a tag,
\* a timestamp) is the sequence of its characters; an optional text is None
\* or Some of it.

\* The Python str of a text: its characters concatenated.
RECURSIVE Join(_)
Join(s) == IF s = << >> THEN "" ELSE s[1] \o Join(Tail(s))

\* x or "" for an optional text.
OrEmpty(o) == IF o = None THEN << >> ELSE o[1]

UpperCase ==
    << "A", "B", "C", "D", "E", "F", "G", "H", "I", "J", "K", "L", "M", "N",
       "O", "P", "Q", "R", "S", "T", "U", "V", "W", "X", "Y", "Z" >>

LowerCase ==
    << "a", "b", "c", "d", "e", "f", "g", "h", "i", "j", "k", "l", "m", "n",
       "o", "p", "q", "r", "s", "t", "u", "v", "w", "x", "y", "z" >>

\* str.lower()
Lower(s) ==
    [i \in 1..Len(s) |->
       IF \E k \in 1..Len(UpperCase) : UpperCase[k] = s[i]
       THEN LowerCase[CHOOSE k \in 1..Len(UpperCase) : UpperCase[k] = s[i]]
       ELSE s[i]]

\* str.strip()
RECURSIVE Strip(_)
Strip(s) ==
    IF s = << >> THEN s
    ELSE IF Head(s) = " " THEN Strip(Tail(s))
    ELSE IF s[Len(s)] = " " THEN Strip(SubSeq(s, 1, Len(s) - 1))
    ELSE s

\* s.startswith(p), s.endswith(p), p in s
StartsWith(s, p) == Len(p) <= Len(s) /\ SubSeq(s, 1, Len(p)) = p

EndsWith(s, p) ==
    Len(p) <= Len(s) /\ SubSeq(s, Len(s) - Len(p) + 1, Len(s)) = p

Contains(p, s) ==
    \E i \in 0..(Len(s) - Len(p)) : SubSeq(s, i + 1, i + Len(p)) = p

\* os.path.splitext(name)[0] of a file name without directory: the name up
\* to its last dot, unless only dots come before that dot.
Stem(s) ==
    LET dots == { i \in 1..Len(s) : s[i] = "." }
        last == CHOOSE i \in dots : \A j \in dots : j <= i
    IN  IF dots # {} /\ \E j \in 1..(last - 1) : s[j] # "."
        THEN SubSeq(s, 1, last - 1)
        ELSE s

\* The code point of a character of a timestamp.
Ord(c) ==
    CASE c = "-" -> 45
      [] c = "0" -> 48 [] c = "1" -> 49 [] c = "2" -> 50 [] c = "3" -> 51
      [] c = "4" -> 52 [] c = "5" -> 53 [] c = "6" -> 54 [] c = "7" -> 55
      [] c = "8" -> 56 [] c = "9" -> 57
      [] c = ":" -> 58 [] c = "T" -> 84 [] c = "Z" -> 90

\* Python's a > b on two str.
RECURSIVE StrGT(_, _)
StrGT(a, b) ==
    IF a = << >> THEN FALSE
    ELSE IF b = << >> THEN TRUE
    ELSE IF Head(a) # Head(b) THEN Ord(Head(a)) > Ord(Head(b))
    ELSE StrGT(Tail(a), Tail(b))

(* ----------------------------- parse_semver ---------------------------- *)

IsDigit(c) == c \in { "0", "1", "2", "3", "4", "5", "6", "7", "8", "9" }

\* The index after the run of digits that starts at i (i when none does).
RECURSIVE DigitsEnd(_, _)
DigitsEnd(s, i) ==
    IF i <= Len(s) /\ IsDigit(s[i]) THEN DigitsEnd(s, i + 1) ELSE i

\* int() of the digits s[i..j-1].
RECURSIVE IntOf(_, _, _)
IntOf(s, i, j) ==
    IF i >= j THEN 0 ELSE IntOf(s, i, j - 1) * 10 + (Ord(s[j - 1]) - Ord("0"))

\* x or y for two optional versions.
OrVer(x, y) == IF x # NoVer THEN x ELSE y

\* The optional fourth group (?:\.(\d+))? after the third, which ends
\* before e3; e4 is where the digits after e3 end.
Group4(s, e3, e4) ==
    IF e3 <= Len(s) /\ s[e3] = "." /\ e4 > e3 + 1
    THEN IntOf(s, e3 + 1, e4) ELSE 0

\* \.(\d+) after the second group, which ends before e2; e3 is where the
\* digits after e2 end.
Group3(s, i, e1, e2, e3) ==
    IF e2 > e1 + 1 /\ e2 <= Len(s) /\ s[e2] = "." /\ e3 > e2 + 1
    THEN << IntOf(s, i, e1), IntOf(s, e1 + 1, e2), IntOf(s, e2 + 1, e3),
            Group4(s, e3, DigitsEnd(s, e3 + 1)) >>
    ELSE NoVer

\* (\d+)\.(\d+) from position i; e1 is where the digits from i end.
Group2(s, i, e1) ==
    IF e1 > i /\ e1 <= Len(s) /\ s[e1] = "."
    THEN Group3(s, i, e1, DigitsEnd(s, e1 + 1),
                DigitsEnd(s, DigitsEnd(s, e1 + 1) + 1))
    ELSE NoVer

\* _semver_re matched at position i: (\d+)\.(\d+)\.(\d+)(?:\.(\d+))?, every
\* \d+ greedy; the groups as integers, the fourth 0 when absent.
MatchAt(s, i) == Group2(s, i, DigitsEnd(s, i))

\* _semver_re.search: the match at the leftmost position that has one.
RECURSIVE Search(_, _)
Search(s, i) ==
    IF i > Len(s) THEN NoVer ELSE OrVer(MatchAt(s, i), Search(s, i + 1))

\* parse_semver(text)
ParseSemver(s) == IF s = << >> THEN NoVer ELSE Search(s, 1)

(* ------------------------- find_latest_exe_asset ----------------------- *)

\* A release of the feed is [draft, prerelease, tag_name, assets]; an asset
\* is [name, browser_download_url, updated_at].  tag_name, name and
\* updated_at are optional texts, browser_download_url an optional string.

\* The str of an optional text, None when it is None.
TextStr(o) == IF o = None THEN None ELSE Some(Join(o[1]))

\* Line 165: for allow_pre in (False, True)
Passes_Merged == << TRUE >>

Passes == << FALSE, TRUE >>

\* Lines 153-156: the releases candidates(allow_prerelease) passes over.
Skipped_DraftsKept(rel, allow_prerelease) ==
    ~allow_prerelease /\ rel.prerelease

Skipped(rel, allow_prerelease) ==
    rel.draft \/ (~allow_prerelease /\ rel.prerelease)

\* Line 160: name.lower().endswith(".exe")
IsExe_CaseSensitive(name) == EndsWith(name, << ".", "e", "x", "e" >>)

IsExe(name) == EndsWith(Lower(name), << ".", "e", "x", "e" >>)

\* Lines 151-162: candidates(allow_prerelease), in the order it yields them.
RECURSIVE Candidates(_, _)
Candidates(releases, allow_prerelease) ==
    IF releases = << >> THEN << >>
    ELSE LET rel     == Head(releases)
             tag_ver == ParseSemver(OrEmpty(rel.tag_name))
             exes    == SelectSeq(rel.assets,
                                  LAMBDA a : IsExe(OrEmpty(a.name)))
         IN  (IF Skipped(rel, allow_prerelease) THEN << >>
              ELSE [i \in 1..Len(exes) |->
                      [rel |-> rel, asset |-> exes[i], tag_ver |-> tag_ver]])
             \o Candidates(Tail(releases), allow_prerelease)

\* Lines 171-181: the name-affinity tier.
Prefer_Flat(name_lc, preferred_lc, preferred_stem) == 0

Prefer(name_lc, preferred_lc, preferred_stem) ==
    IF preferred_lc # << >> /\ name_lc = preferred_lc THEN 3
    ELSE IF preferred_lc # << >> /\ Contains(preferred_lc, name_lc) THEN 2
    ELSE IF preferred_stem # << >>
            /\ (StartsWith(name_lc, preferred_stem)
                \/ Contains(preferred_stem, name_lc)) THEN 2
    ELSE IF Contains(<< "a", "d", "m", "i", "n", "d", "a", "s", "h", "b",
                        "o", "a", "r", "d" >>, name_lc)
            \/ Contains(<< "d", "a", "s", "h", "b", "o", "a", "r", "d" >>,
                        name_lc) THEN 1
    ELSE 0

\* Line 168: v = parse_semver(name) or tag_ver
VersionOf(c) == OrVer(ParseSemver(OrEmpty(c.asset.name)), c.tag_ver)

\* Line 183: the key of a candidate whose tier is prefer and version v.
Key(prefer, v, updated_at) ==
    [prefer     |-> prefer,
     has_v      |-> v # NoVer,
     v          |-> IF v # NoVer THEN v ELSE << 0, 0, 0, 0 >>,
     updated_at |-> OrEmpty(updated_at)]

\* Line 184: key > best[0], Python's comparison of two tuples (int, bool,
\* tuple, str): the first component that differs decides.
KeyGT_VersionFirst(k, b) ==
    IF k.has_v # b.has_v THEN k.has_v
    ELSE IF k.v # b.v THEN TupleGT(k.v, b.v)
    ELSE IF k.prefer # b.prefer THEN k.prefer > b.prefer
    ELSE StrGT(k.updated_at, b.updated_at)

KeyGT(k, b) ==
    IF k.prefer # b.prefer THEN k.prefer > b.prefer
    ELSE IF k.has_v # b.has_v THEN k.has_v
    ELSE IF k.v # b.v THEN TupleGT(k.v, b.v)
    ELSE StrGT(k.updated_at, b.updated_at)

\* Line 164: best = None
NoBest == [found |-> FALSE]

\* Lines 184-185: candidate c with version v and key key replaces best
\* when there is none yet or its key is greater.
Better(best, c, v, key) ==
    IF ~best.found \/ KeyGT(key, best.key)
    THEN [found |-> TRUE, key |-> key, rel |-> c.rel, asset |-> c.asset,
          v |-> v]
    ELSE best

\* Lines 167-185: one turn of the loop, for candidate c with version v.
Turn(best, c, v, preferred_lc, preferred_stem) ==
    Better(best, c, v,
           Key(Prefer(Lower(OrEmpty(c.asset.name)), preferred_lc,
                      preferred_stem),
               v, c.asset.updated_at))

\* Lines 166-185: the loop over the candidates of one pass, from candidate i
\* on, with the best found so far.
RECURSIVE Scan(_, _, _, _, _)
Scan(cands, i, best, preferred_lc, preferred_stem) ==
    IF i > Len(cands) THEN best
    ELSE Scan(cands, i + 1,
              Turn(best, cands[i], VersionOf(cands[i]), preferred_lc,
                   preferred_stem),
              preferred_lc, preferred_stem)

\* Lines 186-187: the best of a pass, or what the later passes find.
OrLater(best, later) == IF best.found THEN best ELSE later

\* Lines 165-187: pass p and, when it found nothing, the passes after it.
RECURSIVE Pass(_, _, _, _)
Pass(releases, p, preferred_lc, preferred_stem) ==
    IF p > Len(Passes) THEN NoBest
    ELSE OrLater(Scan(Candidates(releases, Passes[p]), 1, NoBest,
                      preferred_lc, preferred_stem),
                 Pass(releases, p + 1, preferred_lc, preferred_stem))

\* Line 149: preferred_stem
PreferredStem(preferred_lc) ==
    IF preferred_lc # << >> THEN Stem(preferred_lc) ELSE << >>

\* Lines 148-187: best, for the feed and the preferred file name.
Best(releases, preferred_filename) ==
    Pass(releases, 1, Lower(Strip(preferred_filename)),
         PreferredStem(Lower(Strip(preferred_filename))))

\* Lines 189-190: return None
NoPick ==
    [found |-> FALSE, asset_name |-> None, download_url |-> None,
     version_tuple |-> NoVer, release_tag |-> None]

\* Lines 189-197: what is returned for best.
Returned(best) ==
    IF ~best.found THEN NoPick
    ELSE [found         |-> TRUE,
          asset_name    |-> TextStr(best.asset.name),
          download_url  |-> best.asset.browser_download_url,
          version_tuple |-> best.v,
          release_tag   |-> TextStr(best.rel.tag_name)]

\* find_latest_exe_asset(releases, preferred_filename)
FindLatestExeAsset(releases, preferred_filename) ==
    Returned(Best(releases, preferred_filename))

(* ------------------------------ file system ---------------------------- *)

\* The file name of the executable, as a text.
TargetName == << "a", "p", "p", ".", "e", "x", "e" >>

Target == "app.exe"

\* target + ".old"
Backup(t) == t \o ".old"

RECURSIVE OldPath(_)
OldPath(n) == IF n = 0 THEN Target ELSE Backup(OldPath(n - 1))

\* The file name of OldPath(n), as a text.
RECURSIVE OldName(_)
OldName(n) ==
    IF n = 0 THEN TargetName ELSE OldName(n - 1) \o << ".", "o", "l", "d" >>

\* Paths an application process can run from.
AppPaths == { OldPath(n) : n \in 0..MaxOld }

\* Paths of the modelled directory: every application path and its backup.
Paths == { OldPath(n) : n \in 0..(MaxOld + 1) }

\* What a path holds: nothing, the original executable, the downloaded
\* artifact, an older executable left behind by an earlier update, a
\* download that was cut short, or the artifact of a later release.
Contents == { "none", "orig", "new", "stale", "partial", "newer" }

\* A file that is a whole executable.
Complete(c) == c \in { "orig", "new", "stale", "newer" }

(* ------------------------------ variables ------------------------------ *)

VARIABLES
    fs,         \* [Paths -> Contents]: the directory of the executable
    stateFile,  \* autoupdate_state.json: absent, corrupt or a JSON dict
    releases,   \* the release feed _http_json returns
    preferred,  \* preferred_filename of the last find_latest_exe_asset call
    pick,       \* what the last find_latest_exe_asset call returned
    emb,        \* [Contents -> version]: FileVersion embedded in each exe
    proc,       \* the process that has been started and has not yet run
    inst,       \* the updater process (_run_apply_update)
    log,        \* events of the current updater run, in order
    last,       \* outcome of the last handle_update_flow invocation
    lastCheck,  \* outcome of the last main-role update check
    players,    \* table player_records: [playfab_id -> PlayerRecord]
    sanctions,  \* table sanctions, in the order of the ids
    redflags,   \* table redflags, in the order of the ids
    sess,       \* the sessions of the calls in progress
    returned,   \* what the call that returned last returned
    clock,      \* datetime.utcnow(), counted in calls
    pair        \* two updater processes that run at the same time

\* The database of the dashboard.
dbVars == << players, sanctions, redflags, sess, returned, clock >>

vars ==
    << fs, stateFile, releases, preferred, pick, emb, proc, inst, log, last,
       lastCheck, dbVars, pair >>

\* os.path.exists(p)
Exists(p) == p \in DOMAIN fs /\ fs[p] # "none"


(* --------------------------- _parse_apply_args ------------------------- *)

NoPayload == [url |-> None, target |-> None, remote_ver |-> None]

\* The token after position i, consumed by next(it, None).
NextTok(argv, i) == IF i + 1 <= Len(argv) THEN Some(argv[i + 1]) ELSE None

\* for tok in it: ... ; position i of argv, the values found so far in acc.
RECURSIVE ParseTokens(_, _, _)
ParseTokens(argv, i, acc) ==
    IF i > Len(argv) THEN acc
    ELSE IF argv[i] = "--url"
         THEN ParseTokens(argv, i + 2, [acc EXCEPT !.url = NextTok(argv, i)])
    ELSE IF argv[i] = "--target"
         THEN ParseTokens(argv, i + 2, [acc EXCEPT !.target = NextTok(argv, i)])
    ELSE IF argv[i] = "--remote-version"
         THEN ParseTokens(argv, i + 2,
                          [acc EXCEPT !.remote_ver = NextTok(argv, i)])
    ELSE ParseTokens(argv, i + 1, acc)

\* _parse_apply_args(argv): (url, target, remote_ver, passthrough)
ParseApplyArgs(argv) ==
    LET i    == IndexOf(argv, "--")
        head == IF i > 0 THEN SubSeq(argv, 1, i - 1) ELSE argv
        pass == IF i > 0 THEN SubSeq(argv, i + 1, Len(argv)) ELSE << >>
        got  == ParseTokens(head, 1, NoPayload)
    IN  [url |-> got.url, target |-> got.target,
         remote_ver |-> got.remote_ver, passthrough |-> pass]

(* ------------------------------ state file ----------------------------- *)

\* _load_state(): the dict in the file, {} when it is missing or unreadable.
LoadState(file) == IF file.kind = "json" THEN file.dict ELSE EmptyDict

\* A state file that keeps the earlier identifier beside the new one.
InstalledDict_Accumulate(st, remote_ver, target) ==
    [k \in { "installed_remote_version", "installed_remote_id", "installed_at",
             "installed_path", "previous_remote_id" } |->
       IF k = "installed_at" THEN Some("now")
       ELSE IF k = "installed_path" THEN Some(target)
       ELSE IF k = "previous_remote_id" THEN Get(st, "installed_remote_id")
       ELSE remote_ver]

\* The dict _run_apply_update builds from the loaded state (lines 325-330).
\* installed_at is the wall-clock time of the write; its value is not modelled.
InstalledDict(st, remote_ver, target) ==
    Put(Put(Put(Put(st, "installed_remote_version", remote_ver),
                "installed_remote_id", remote_ver),
            "installed_at", Some("now")),
        "installed_path", Some(target))

\* The file json.dump(state) leaves when the write succeeds.
SavedFile(st) == [kind |-> "json", dict |-> st]

\* No state file yet, and a state file cut short by a failed write.
AbsentFile == [kind |-> "absent", dict |-> EmptyDict]

CorruptFile == [kind |-> "corrupt", dict |-> EmptyDict]

(* ---------------------------- updater process -------------------------- *)

NoProc == [kind |-> "none", exe |-> "", argv |-> << >>, frozen |-> FALSE]

Idle ==
    [pc |-> "idle", argv |-> << >>, url |-> None, target |-> None,
     remote_ver |-> None, passthrough |-> << >>,
     dl |-> "none", dlOpen |-> FALSE, chunks |-> 0, tries |-> 0,
     t0 |-> "none", b0 |-> "none", s0 |-> AbsentFile]

\* Idle's t0, b0 and s0 record what the target path, the backup path and
\* the state file held when the run parsed its task.

\* The target path and the backup path of the running updater.
T == inst.target[1]

B == Backup(T)

\* A Popen that starts one more updater.
Started_AsUpdater(exe, argv) ==
    [kind |-> "updater", exe |-> exe, argv |-> << "--apply-update" >> \o argv,
     frozen |-> TRUE]

\* subprocess.Popen([exe] + passthrough): the started process.
Started(exe, argv) == [kind |-> "app", exe |-> exe, argv |-> argv, frozen |-> TRUE]

\* Lines 302-304: parse the task; return at once when url or target is missing.
ParseTask ==
    /\ inst.pc = "start"
    /\ LET a == ParseApplyArgs(inst.argv)
       IN  /\ inst' = [inst EXCEPT
                         !.url = a.url, !.target = a.target,
                         !.remote_ver = a.remote_ver,
                         !.passthrough = a.passthrough,
                         !.t0 = IF Truthy(a.target) THEN fs[a.target[1]]
                                ELSE "none",
                         !.b0 = IF Truthy(a.target)
                                THEN fs[Backup(a.target[1])] ELSE "none",
                         !.s0 = stateFile,
                         !.pc = IF ~Truthy(a.url) \/ ~Truthy(a.target)
                                THEN "exit" ELSE "prepare"]
           /\ log' = IF ~Truthy(a.url) \/ ~Truthy(a.target)
                     THEN << "no_task" >> ELSE << "start" >>
    /\ UNCHANGED << fs, stateFile, releases, preferred, pick, emb, proc, last,
                  lastCheck,
                  dbVars, pair >>

\* Lines 312, 333: an exception of _download leaves the try block for the
\* except block.
OnDownloadError_Swallowed == "install"

OnDownloadError == "failed"

\* Line 309: tempfile.mkdtemp creates the download directory, or raises.
Prepare ==
    /\ inst.pc = "prepare"
    /\ \/ /\ inst' = [inst EXCEPT !.pc = "dl_open"]
          /\ log' = log
       \/ /\ inst' = [inst EXCEPT !.pc = "failed"]
          /\ log' = Append(log, "prepare_error")
    /\ UNCHANGED << fs, stateFile, releases, preferred, pick, emb, proc, last,
                  lastCheck,
                  dbVars, pair >>

\* Lines 219-220: urlopen and open(out_path, "wb"); either may raise, and
\* then no temp file is left open.
DownloadOpen ==
    /\ inst.pc = "dl_open"
    /\ \/ /\ inst' = [inst EXCEPT !.pc = "dl_read", !.dl = "partial",
                                  !.dlOpen = TRUE, !.chunks = 0]
          /\ log' = Append(log, "dl_open")
       \/ /\ inst' = [inst EXCEPT !.pc = "failed"]
          /\ log' = Append(log, "dl_error")
    /\ UNCHANGED << fs, stateFile, releases, preferred, pick, emb, proc, last,
                  lastCheck,
                  dbVars, pair >>

\* Lines 231-235: one r.read(): a chunk that is written, the empty chunk
\* that ends the loop (the with block then closes the file), or an error
\* (the with block closes the file and the exception propagates).
DownloadRead ==
    /\ inst.pc = "dl_read"
    /\ \/ /\ inst.chunks < NumChunks
          /\ inst' = [inst EXCEPT !.chunks = @ + 1]
          /\ log' = log
       \/ /\ inst.chunks = NumChunks
          /\ inst' = [inst EXCEPT !.pc = "install", !.dl = "complete",
                                  !.dlOpen = FALSE, !.chunks = 0]
          /\ log' = Append(log, "dl_closed")
       \/ /\ inst' = [inst EXCEPT !.pc = OnDownloadError, !.dlOpen = FALSE,
                                  !.chunks = 0]
          /\ log' = Append(log, "dl_error")
    /\ UNCHANGED << fs, stateFile, releases, preferred, pick, emb, proc, last,
                  lastCheck,
                  dbVars, pair >>

\* Line 316: if os.path.exists(target): back it up, else go to the rename-in.
CheckTarget ==
    /\ inst.pc = "install"
    /\ inst' = [inst EXCEPT !.pc = IF Exists(T) THEN "backup" ELSE "rename_in",
                            !.tries = 0]
    /\ UNCHANGED << fs, stateFile, releases, preferred, pick, emb, proc, log,
                  last, lastCheck,
                  dbVars, pair >>

\* os.replace(src, dst) on two paths of the directory.
Replace_Remove(src, dst) == [fs EXCEPT ![src] = "none"]

Replace_Copy(src, dst) == [fs EXCEPT ![dst] = fs[src]]

Replace(src, dst) == [fs EXCEPT ![dst] = fs[src], ![src] = "none"]

\* Lines 319-321: the backup rename's error is re-raised.
OnBackupError_Ignored == "rename_in"

OnBackupError == "failed"

\* Line 318: _replace_with_retry(target, backup).  One os.replace attempt:
\* it succeeds; it fails and the loop sleeps and retries; or it fails and
\* the deadline has passed, so the last error is raised.
BackupRename ==
    /\ inst.pc = "backup"
    /\ \/ /\ fs' = Replace(T, B)
          /\ inst' = [inst EXCEPT !.pc = "rename_in", !.tries = 0]
          /\ log' = Append(log, "backup_ok")
       \/ /\ inst.tries < MaxTries
          /\ inst' = [inst EXCEPT !.tries = @ + 1]
          /\ UNCHANGED << fs, log >>
       \/ /\ inst' = [inst EXCEPT !.pc = OnBackupError, !.tries = 0]
          /\ log' = Append(log, "backup_fail")
          /\ fs' = fs
    /\ UNCHANGED << stateFile, releases, preferred, pick, emb, proc, last,
                  lastCheck,
                  dbVars, pair >>

\* What the temp file new.exe holds.
Downloaded(dl) == IF dl = "complete" THEN "new" ELSE "partial"

\* Line 323: _replace_with_retry(dl_path, target), same retry policy.
RenameIn ==
    /\ inst.pc = "rename_in"
    /\ \/ /\ fs' = [fs EXCEPT ![T] = Downloaded(inst.dl)]
          /\ inst' = [inst EXCEPT !.pc = "save", !.dl = "none", !.tries = 0]
          /\ log' = Append(log, "in_ok")
       \/ /\ inst.tries < MaxTries
          /\ inst' = [inst EXCEPT !.tries = @ + 1]
          /\ UNCHANGED << fs, log >>
       \/ /\ inst' = [inst EXCEPT !.pc = "failed", !.tries = 0]
          /\ log' = Append(log, "in_fail")
          /\ fs' = fs
    /\ UNCHANGED << stateFile, releases, preferred, pick, emb, proc, last,
                  lastCheck,
                  dbVars, pair >>

\* Lines 325-331: load the state, set the four keys, save.  _save_state
\* swallows every error: the file is rewritten; or it could not be opened
\* and is as it was; or it was truncated by open(.., "w") and the dump failed.
SaveState ==
    /\ inst.pc = "save"
    /\ \/ /\ stateFile' = SavedFile(InstalledDict(LoadState(stateFile),
                                                  inst.remote_ver, T))
          /\ log' = Append(log, "save_ok")
       \/ /\ stateFile' = stateFile
          /\ log' = Append(log, "save_fail")
       \/ /\ stateFile' = CorruptFile
          /\ log' = Append(log, "save_fail")
    /\ inst' = [inst EXCEPT !.pc = "launch"]
    /\ UNCHANGED << fs, releases, preferred, pick, emb, proc, last, lastCheck,
                  dbVars, pair >>

\* Lines 351-361: the launch and the cleanup share one try block, so an
\* error of Popen skips the cleanup.
OnLaunchError_Cleanup == "cleanup"

OnLaunchError == "exit"

\* Line 353: Popen([target] + passthrough); an error skips the cleanup.
LaunchNew ==
    /\ inst.pc = "launch"
    /\ \/ /\ proc' = Started(T, inst.passthrough)
          /\ inst' = [inst EXCEPT !.pc = "cleanup"]
          /\ log' = Append(log, "launch_new_ok")
       \/ /\ proc' = proc
          /\ inst' = [inst EXCEPT !.pc = OnLaunchError]
          /\ log' = Append(log, "launch_new_raise")
    /\ UNCHANGED << fs, stateFile, releases, preferred, pick, emb, last,
                  lastCheck,
                  dbVars, pair >>

\* Lines 355-359: if os.path.exists(backup): os.remove(backup), best effort.
Cleanup ==
    /\ inst.pc = "cleanup"
    /\ \/ /\ Exists(B)
          /\ fs' = [fs EXCEPT ![B] = "none"]
          /\ log' = Append(log, "rm_ok")
       \/ /\ Exists(B)
          /\ fs' = fs
          /\ log' = Append(log, "rm_fail")
       \/ /\ ~Exists(B)
          /\ UNCHANGED << fs, log >>
    /\ inst' = [inst EXCEPT !.pc = "exit"]
    /\ UNCHANGED << stateFile, releases, preferred, pick, emb, proc, last,
                  lastCheck,
                  dbVars, pair >>

\* Lines 346-347: an error of Popen is passed over and the loop goes on to
\* the next candidate.
OnRelaunchError_Stop == "exit"

OnRelaunchError == "failed_backup"

\* Lines 341-347, candidate = target: launch it if it exists and stop; go on
\* to the backup when it does not exist or Popen raises.
FallbackTarget ==
    /\ inst.pc = "failed"
    /\ \/ /\ Exists(T)
          /\ proc' = Started(T, inst.passthrough)
          /\ inst' = [inst EXCEPT !.pc = "exit"]
          /\ log' = Append(log, "relaunch_target_ok")
       \/ /\ Exists(T)
          /\ proc' = proc
          /\ inst' = [inst EXCEPT !.pc = OnRelaunchError]
          /\ log' = Append(log, "relaunch_target_raise")
       \/ /\ ~Exists(T)
          /\ proc' = proc
          /\ inst' = [inst EXCEPT !.pc = "failed_backup"]
          /\ log' = log
    /\ UNCHANGED << fs, stateFile, releases, preferred, pick, emb, last,
                  lastCheck,
                  dbVars, pair >>

\* Lines 341-348, candidate = backup.
FallbackBackup ==
    /\ inst.pc = "failed_backup"
    /\ \/ /\ Exists(B)
          /\ proc' = Started(B, inst.passthrough)
          /\ log' = Append(log, "relaunch_backup_ok")
       \/ /\ Exists(B)
          /\ proc' = proc
          /\ log' = Append(log, "relaunch_backup_raise")
       \/ /\ ~Exists(B)
          /\ proc' = proc
          /\ log' = log
    /\ inst' = [inst EXCEPT !.pc = "exit"]
    /\ UNCHANGED << fs, stateFile, releases, preferred, pick, emb, last,
                  lastCheck,
                  dbVars, pair >>


(* --------------------------- handle_update_flow ------------------------ *)

\* An identifier that is the release tag whenever there is one.
RemoteId_TagFirst(pk) ==
    IF Truthy(pk.release_tag) THEN pk.release_tag
    ELSE IF pk.version_tuple # NoVer THEN Some(DotJoin(pk.version_tuple))
    ELSE None

\* Lines 402-409: the identifier the comparison and the task use.
RemoteId(pk) ==
    IF pk.version_tuple # NoVer
    THEN Some(DotJoin(pk.version_tuple))
    ELSE Or(pk.release_tag, None)

\* Line 397: st.get("installed_remote_id") or st.get("installed_remote_version")
InstalledId(st) ==
    Or(Get(st, "installed_remote_id"), Get(st, "installed_remote_version"))

\* A decision that compares the identifiers whenever the tuples cannot be
\* compared.
NeedsUpdate_IdOnly(current_v, pk, installed_id) ==
    IF current_v # NoVer /\ pk.version_tuple # NoVer
    THEN TupleGT(pk.version_tuple, current_v)
    ELSE Str(RemoteId(pk)) # Str(installed_id)

\* Lines 411-420: the decision, from the running binary's version, the
\* selected asset and the installed identifier.
NeedsUpdate(current_v, pk, installed_id) ==
    IF pk.version_tuple = NoVer /\ installed_id = pk.release_tag THEN FALSE
    ELSE IF current_v # NoVer /\ pk.version_tuple # NoVer
         THEN TupleGT(pk.version_tuple, current_v)
    ELSE IF pk.version_tuple # NoVer
         THEN Str(RemoteId(pk)) # Str(installed_id)
    ELSE pk.release_tag # installed_id

\* Lines 435-446: sys.argv[1:] of the spawned updater.
UpdaterArgv(pk, exe_path, argv) ==
    << "--apply-update", "--url", Str(pk.download_url), "--target", exe_path,
       "--remote-version",
       IF Truthy(RemoteId(pk)) THEN RemoteId(pk)[1] ELSE "", "--" >> \o argv

\* _get_file_version_tuple(sys.executable)
CurrentVersion(exe_path) == emb[fs[exe_path]]

\* os.path.basename(sys.executable): the file name of a path of the
\* directory, as a text.
Basename(path) ==
    CHOOSE s \in { OldName(n) : n \in 0..(MaxOld + 1) } : Join(s) = path

\* The decision of the running process proc about the selected asset pk
\* (lines 392-420).
Decision(pk) ==
    NeedsUpdate(CurrentVersion(proc.exe), pk,
                InstalledId(LoadState(stateFile)))

\* A flow whose every return is False.
Outcome_AlwaysFalse(role, ret, spawned) ==
    [role |-> role, ret |-> FALSE, spawned |-> spawned]

\* A flow whose every return is True.
Outcome_AlwaysTrue(role, ret, spawned) ==
    [role |-> role, ret |-> TRUE, spawned |-> spawned]

\* What handle_update_flow returned last: the role it took, the value it
\* returned, and whether it started an updater.
Outcome(role, ret, spawned) == [role |-> role, ret |-> ret, spawned |-> spawned]

\* Lines 368-375: --apply-update in argv: this process is the updater.
EnterUpdater ==
    /\ proc.kind # "none"
    /\ InArgv("--apply-update", proc.argv)
    /\ inst.pc = "idle"
    /\ inst' = [Idle EXCEPT !.pc = "start", !.argv = proc.argv]
    /\ proc' = NoProc
    /\ log' = << >>
    /\ UNCHANGED << fs, stateFile, releases, preferred, pick, emb, last,
                  lastCheck,
                  dbVars, pair >>

\* Lines 376-379: _run_apply_update has returned; the updater returns True.
ExitUpdater ==
    /\ inst.pc = "exit"
    /\ inst' = Idle
    /\ last' = Outcome("updater", TRUE, FALSE)
    /\ log' = << >>
    /\ UNCHANGED << fs, stateFile, releases, preferred, pick, emb, proc,
                  lastCheck,
                  dbVars, pair >>

\* A test that looks at the flag only.
Suppressed_FlagOnly(frozen, argv) == InArgv("--skip-update", argv)

\* Line 382: (not _is_frozen()) or ("--skip-update" in argv)
Suppressed(frozen, argv) == ~frozen \/ InArgv("--skip-update", argv)

\* Lines 382-383: not frozen, or --skip-update: no check.
SkipCheck ==
    /\ proc.kind = "app"
    /\ inst.pc = "idle"
    /\ ~InArgv("--apply-update", proc.argv)
    /\ Suppressed(proc.frozen, proc.argv)
    /\ proc' = NoProc
    /\ last' = Outcome("main", FALSE, FALSE)
    /\ UNCHANGED << fs, stateFile, releases, preferred, pick, emb, inst, log,
                  lastCheck,
                  dbVars, pair >>

\* Lines 385-452: the update check of the packaged executable.  Each
\* disjunct is one way through the try block.
MainCheck ==
    /\ proc.kind = "app"
    /\ inst.pc = "idle"
    /\ ~InArgv("--apply-update", proc.argv)
    /\ ~Suppressed(proc.frozen, proc.argv)
    /\ \/ \* _http_json raises, or the response is malformed (line 387)
          /\ proc' = NoProc
          /\ last' = Outcome("main", FALSE, FALSE)
          /\ lastCheck' = "fetch_failed"
          /\ UNCHANGED << preferred, pick >>
       \/ \* the feed is read and an asset selected (line 388)
          /\ preferred' = Basename(proc.exe)
          /\ pick' = FindLatestExeAsset(releases, preferred')
          /\ \/ \* nothing selected, or no download URL (lines 389-390)
                /\ ~pick'.found \/ ~Truthy(pick'.download_url)
                /\ proc' = NoProc
                /\ last' = Outcome("main", FALSE, FALSE)
                /\ lastCheck' = "no_pick"
             \/ \* no update needed (lines 411-412, 422-424)
                /\ pick'.found /\ Truthy(pick'.download_url)
                /\ ~Decision(pick')
                /\ proc' = NoProc
                /\ last' = Outcome("main", FALSE, FALSE)
                /\ lastCheck' = "no_update"
             \/ \* shutil.copy2 of the running executable fails (429-432)
                /\ pick'.found /\ Truthy(pick'.download_url)
                /\ Decision(pick')
                /\ proc' = NoProc
                /\ last' = Outcome("main", FALSE, FALSE)
                /\ lastCheck' = "copy_failed"
             \/ \* Popen of the updater raises (lines 448, 451-452)
                /\ pick'.found /\ Truthy(pick'.download_url)
                /\ Decision(pick')
                /\ proc' = NoProc
                /\ last' = Outcome("main", FALSE, FALSE)
                /\ lastCheck' = "spawn_failed"
             \/ \* the updater is spawned (lines 436-450)
                /\ pick'.found /\ Truthy(pick'.download_url)
                /\ Decision(pick')
                /\ proc.exe \in AppPaths
                /\ proc' = [kind |-> "updater", exe |-> "updater.exe",
                            argv |-> UpdaterArgv(pick', proc.exe, proc.argv),
                            frozen |-> TRUE]
                /\ last' = Outcome("main", TRUE, TRUE)
                /\ lastCheck' = "spawned"
    /\ UNCHANGED << fs, stateFile, releases, emb, inst, log,
                  dbVars, pair >>

\* A call of find_latest_exe_asset on its own, as a test makes it.
Select ==
    /\ proc.kind = "none"
    /\ lastCheck = "none"
    /\ pick' = FindLatestExeAsset(releases, preferred)
    /\ lastCheck' = "selected"
    /\ UNCHANGED << fs, stateFile, releases, preferred, emb, proc, inst, log,
                    last,
                  dbVars, pair >>

(* --------------------------- database_manager -------------------------- *)

\* The PlayFab id, the usernames, sanction types and notes of the calls.
PlayfabIds == { "P1" }

Usernames == { "Alice", "Bob" }

SanctionTypes == { "ban", "kick" }

Notes == { "hello", "again" }

Sessions == 1..MaxSessions

\* The variables of the update protocol.
updVars ==
    << fs, stateFile, releases, preferred, pick, emb, proc, inst, log, last,
       lastCheck, pair >>

\* x in xs, for a list xs.
InList(x, xs) == \E i \in 1..Len(xs) : xs[i] = x

\* PlayerRecord(playfab_id=playfab_id): no username, no last_seen, no note,
\* and the name history '[]' of the column default.
NewRecord ==
    [username |-> None, last_seen |-> None, name_history |-> << >>,
     note |-> None]

\* Lines 705-718: the record of playfab_id in the table, or a new one.
GetOrCreate(playfab_id) ==
    IF playfab_id \in DOMAIN players
    THEN [record |-> players[playfab_id], created |-> FALSE]
    ELSE [record |-> NewRecord, created |-> TRUE]

\* A name history that takes every previous name, known or not.
AppendNameHistory_Always(record, previous_username) ==
    IF ~Truthy(previous_username) THEN record
    ELSE [record EXCEPT !.name_history = Append(@, previous_username[1])]

\* Lines 721-727: _append_name_history
AppendNameHistory(record, previous_username) ==
    IF ~Truthy(previous_username) THEN record
    ELSE IF InList(previous_username[1], record.name_history) THEN record
    ELSE [record EXCEPT !.name_history = Append(@, previous_username[1])]

\* A row of table sanctions.
Entry(sanction_type, playfab_id, username, previous_username, last_seen) ==
    [sanction_type |-> sanction_type, playfab_id |-> playfab_id,
     username |-> username, previous_username |-> previous_username,
     last_seen |-> last_seen]

\* A row of table redflags.
Flag(playfab_id, username) == [playfab_id |-> playfab_id, username |-> username]

\* Lines 754-760: the username changes; the previous one goes to the name
\* history when there is one.
Renamed(record, username) ==
    IF username # None /\ username # record.username
    THEN [(IF Truthy(record.username)
           THEN AppendNameHistory(record, record.username)
           ELSE record) EXCEPT !.username = username]
    ELSE record

\* A history row for every change of the username, the first one too.
RenameEntries_FirstToo(record, created, playfab_id, username, create_username_history) ==
    IF username # None /\ username # record.username
       /\ create_username_history
    THEN << Entry("username_update", playfab_id, username, record.username,
                  None) >>
    ELSE << >>

\* Lines 763-775: the 'username_update' row, for a change of the username
\* of a record that was not created by this call.
RenameEntries(record, created, playfab_id, username, create_username_history) ==
    IF username # None /\ username # record.username
       /\ create_username_history /\ ~created
    THEN << Entry("username_update", playfab_id, username, record.username,
                  None) >>
    ELSE << >>

\* A call that writes a 'last_seen_update' row whatever the flag says.
SeenEntries_Always(record, playfab_id, username, last_seen, create_last_seen_history) ==
    IF last_seen # None
    THEN << Entry("last_seen_update", playfab_id,
                  Or(record.username, username), None, last_seen) >>
    ELSE << >>

\* Lines 778-794: the 'last_seen_update' row; record is the record after
\* the username was set.
SeenEntries(record, playfab_id, username, last_seen, create_last_seen_history) ==
    IF last_seen # None /\ create_last_seen_history
    THEN << Entry("last_seen_update", playfab_id,
                  Or(record.username, username), None, last_seen) >>
    ELSE << >>

\* Lines 730-796: _upsert_player_identity_in_session on the record the
\* session holds: the record afterwards and the rows added to the session.
Upsert(record, created, playfab_id, username, last_seen, create_username_history, create_last_seen_history) ==
    [record |-> IF last_seen # None
                THEN [Renamed(record, username) EXCEPT !.last_seen = last_seen]
                ELSE Renamed(record, username),
     adds   |-> RenameEntries(record, created, playfab_id, username,
                              create_username_history)
                \o SeenEntries(Renamed(record, username), playfab_id,
                               username, last_seen, create_last_seen_history)]

\* A session that holds nothing.
NoSession ==
    [pc |-> "idle", op |-> "none", playfab_id |-> "", username |-> None,
     created |-> FALSE, read |-> NewRecord, record |-> NewRecord,
     adds |-> << >>, flags |-> << >>]

\* What a call returned: ok is FALSE for None (False for clear_note); obj
\* is the returned object.
Result(op, playfab_id, ok, obj) ==
    [op |-> op, playfab_id |-> playfab_id, ok |-> ok, obj |-> obj]

\* session = get_session() and the work of a call up to its commit: the
\* record read or created, as changed by the call, and the rows added.
Opened(op, playfab_id, username, g, record, adds, flags) ==
    [pc |-> "open", op |-> op, playfab_id |-> playfab_id,
     username |-> username, created |-> g.created, read |-> g.record,
     record |-> record, adds |-> adds, flags |-> flags]

\* A call begins at the next tick of the clock, in session s, the first
\* one that is free.
Begin(s) ==
    /\ sess[s].pc = "idle"
    /\ \A r \in 1..(s - 1) : sess[r].pc = "open"
    /\ clock < MaxCalls
    /\ clock' = clock + 1
    /\ UNCHANGED << players, sanctions, redflags, returned, updVars >>

\* Lines 818-837: update_last_seen up to the commit.
UpdateLastSeen(s) ==
    /\ Begin(s)
    /\ \E id \in PlayfabIds, u \in Usernames :
          LET g  == GetOrCreate(id)
              up == Upsert(g.record, g.created, id, Some(u), Some(clock'),
                           TRUE, TRUE)
          IN  sess' = [sess EXCEPT ![s] =
                         Opened("update_last_seen", id, Some(u), g, up.record,
                                up.adds, << >>)]

\* Lines 43-80: create_sanction up to the commit.
CreateSanction(s) ==
    /\ Begin(s)
    /\ \E id \in PlayfabIds, u \in Usernames, t \in SanctionTypes :
          LET g  == GetOrCreate(id)
              up == Upsert(g.record, g.created, id, Some(u), Some(clock'),
                           TRUE, FALSE)
          IN  sess' = [sess EXCEPT ![s] =
                         Opened(t, id, Some(u), g, up.record,
                                Append(up.adds,
                                       Entry(t, id, Some(u), None, None)),
                                << >>)]

\* Lines 385-412: create_redflag up to the commit.
CreateRedflag(s) ==
    /\ Begin(s)
    /\ \E id \in PlayfabIds, u \in Usernames :
          LET g  == GetOrCreate(id)
              up == Upsert(g.record, g.created, id, Some(u), Some(clock'),
                           TRUE, FALSE)
          IN  sess' = [sess EXCEPT ![s] =
                         Opened("redflag", id, Some(u), g, up.record, up.adds,
                                << Flag(id, Some(u)) >>)]

\* A note that is written only where there is none.
Noted_KeepFirst(record, note) ==
    IF record.note # None THEN record ELSE [record EXCEPT !.note = note]

\* Line 867: record.note = note
Noted(record, note) == [record EXCEPT !.note = note]

\* Lines 861-867: set_note(playfab_id, note) up to the commit.
SetNote(s) ==
    /\ Begin(s)
    /\ \E id \in PlayfabIds, n \in Notes :
          LET g == GetOrCreate(id)
          IN  sess' = [sess EXCEPT ![s] =
                         Opened("set_note", id, None, g,
                                Noted(g.record, Some(n)),
                                << >>, << >>)]

\* Lines 880-883: clear_note(playfab_id), set_note(playfab_id, None), up
\* to the commit.
ClearNote(s) ==
    /\ Begin(s)
    /\ \E id \in PlayfabIds :
          LET g == GetOrCreate(id)
          IN  sess' = [sess EXCEPT ![s] =
                         Opened("clear_note", id, None, g,
                                Noted(g.record, None),
                                << >>, << >>)]

\* The flush of session se: an INSERT of the record it created, or an
\* UPDATE of the columns it changed, on the table as it is now.
Flushed(se) ==
    IF se.created
    THEN [id \in (DOMAIN players) \cup { se.playfab_id } |->
            IF id = se.playfab_id THEN se.record ELSE players[id]]
    ELSE [players EXCEPT ![se.playfab_id] =
            [c \in DOMAIN NewRecord |->
               IF se.record[c] # se.read[c] THEN se.record[c] ELSE @[c]]]

\* The INSERT of a record whose playfab_id is in the table by now violates
\* the primary key.
Conflict(se) == se.created /\ se.playfab_id \in DOMAIN players

\* The object a call returns after commit and refresh.
Refreshed(se) ==
    IF se.op \in { "update_last_seen", "set_note" }
    THEN Result(se.op, se.playfab_id, TRUE, Flushed(se)[se.playfab_id])
    ELSE IF se.op = "clear_note"
    THEN Result(se.op, se.playfab_id, TRUE, None)
    ELSE IF se.op = "redflag"
    THEN Result(se.op, se.playfab_id, TRUE, se.flags[Len(se.flags)])
    ELSE Result(se.op, se.playfab_id, TRUE, se.adds[Len(se.adds)])

\* session.commit() raises: rollback, and None is returned (False by
\* clear_note).
Rollback(s) ==
    /\ sess[s].pc = "open"
    /\ sess' = [sess EXCEPT ![s] = NoSession]
    /\ returned' = Result(sess[s].op, sess[s].playfab_id, FALSE, None)
    /\ UNCHANGED << players, sanctions, redflags, clock, updVars >>

\* session.commit() succeeds; session.refresh() then succeeds and the
\* object is returned, or raises and None is returned.
Commit(s) ==
    /\ sess[s].pc = "open"
    /\ ~Conflict(sess[s])
    /\ players' = Flushed(sess[s])
    /\ sanctions' = sanctions \o sess[s].adds
    /\ redflags' = redflags \o sess[s].flags
    /\ sess' = [sess EXCEPT ![s] = NoSession]
    /\ \/ returned' = Refreshed(sess[s])
       \/ returned' = Result(sess[s].op, sess[s].playfab_id, FALSE, None)
    /\ UNCHANGED << clock, updVars >>

\* The calls of session s.
Call(s) ==
    \/ UpdateLastSeen(s)
    \/ CreateSanction(s)
    \/ CreateRedflag(s)
    \/ SetNote(s)
    \/ ClearNote(s)
    \/ Rollback(s)
    \/ Commit(s)

\* No call has been made.
DbInit ==
    /\ players = [id \in {} |-> NewRecord]
    /\ sanctions = << >>
    /\ redflags = << >>
    /\ sess = [s \in Sessions |-> NoSession]
    /\ returned = Result("none", "", FALSE, None)
    /\ clock = 0

(* ------------------------------ environment ---------------------------- *)

\* Arguments the user starts the application with.
MainArgvs == { << >>, << "-x" >>, << "--skip-update" >> }

\* Arguments of an updater started by hand: a task without url, a task
\* without target, and the task the main role hands over.
UpdaterArgvs ==
    { << "--apply-update", "--target", Target, "--", "-x" >>,
      << "--apply-update", "--url", "https://dl/new.exe", "--", "-x" >>,
      << "--apply-update", "--url", "https://dl/new.exe", "--target", Target,
         "--remote-version", "1.2.0.0", "--", "-x" >> }

\* The processes a user can start in the directory fs0: the application from
\* an executable that exists, packaged or from source, or an updater.
UserProcs(fs0) ==
    { [kind |-> "app", exe |-> p, argv |-> a, frozen |-> fr] :
        p \in { q \in AppPaths : fs0[q] # "none" }, a \in MainArgvs,
        fr \in BOOLEAN }
    \cup { [kind |-> "updater", exe |-> "updater.exe", argv |-> a,
            frozen |-> TRUE] : a \in UpdaterArgvs }

\* Texts of the feeds.
AdminDashboard ==
    << "A", "d", "m", "i", "n", "D", "a", "s", "h", "b", "o", "a", "r", "d" >>

DotExe == << ".", "e", "x", "e" >>

Nightly == << "n", "i", "g", "h", "t", "l", "y" >>

\* "AdminDashboard-" + version + ".exe" and "v" + version
VersionedName(version) == AdminDashboard \o << "-" >> \o version \o DotExe

VersionTag(version) == << "v" >> \o version

Url == "https://dl/new.exe"

\* "2024-" + month: the updated_at of an asset, cut to the month.
Stamp(month) == << "2", "0", "2", "4", "-" >> \o month

Asset(name, url, updated_at) ==
    [name |-> name, browser_download_url |-> url, updated_at |-> updated_at]

Release(draft, prerelease, tag_name, assets) ==
    [draft |-> draft, prerelease |-> prerelease, tag_name |-> tag_name,
     assets |-> assets]

\* A feed of one stable release with one asset.
OneAsset(tag_name, name, url) ==
    << Release(FALSE, FALSE, tag_name,
               << Asset(name, url, Some(Stamp(<< "0", "1" >>))) >>) >>

\* The feeds of the update chain: no release; an asset without a download
\* URL; version 1.0.0 and version 1.2.0 in the asset's name; no version in
\* the name and none in the tag, which is missing, empty or a word.
Feeds ==
    { << >>,
      OneAsset(Some(VersionTag(<< "1", ".", "2", ".", "0" >>)),
               Some(VersionedName(<< "1", ".", "2", ".", "0" >>)), None),
      OneAsset(Some(VersionTag(<< "1", ".", "0", ".", "0" >>)),
               Some(VersionedName(<< "1", ".", "0", ".", "0" >>)), Some(Url)),
      OneAsset(Some(VersionTag(<< "1", ".", "2", ".", "0" >>)),
               Some(VersionedName(<< "1", ".", "2", ".", "0" >>)), Some(Url)) }
    \cup { OneAsset(tag, Some(TargetName), Some(Url)) :
             tag \in { None, Some(<< >>), Some(Nightly) } }

(* ------------------------------ specification -------------------------- *)

\* The directory before the run: the executable alone, or with the backup an
\* earlier update left, or only the backup (an earlier update renamed the
\* executable aside and could not rename its download in).
Layout(t, b) ==
    [p \in Paths |->
       IF p = Target THEN t ELSE IF p = Backup(Target) THEN b ELSE "none"]

Layouts == { Layout("orig", "none"), Layout("orig", "stale"),
             Layout("none", "orig") }

Init ==
    /\ fs \in Layouts
    /\ stateFile \in
          { AbsentFile,
            SavedFile(InstalledDict(EmptyDict, Some("nightly"), Target)) }
    /\ releases \in Feeds
    /\ preferred = << >>
    /\ pick = NoPick
    /\ \E o \in { NoVer, V1 }, n \in { NoVer, V1, V2 } :
          emb = [c \in Contents |->
                   IF c = "orig" THEN o ELSE IF c = "new" THEN n ELSE NoVer]
    /\ proc \in UserProcs(fs)
    /\ inst = Idle
    /\ log = << >>
    /\ last = Outcome("none", FALSE, FALSE)
    /\ lastCheck = "none"
    /\ DbInit
    /\ pair = << >>

Updater ==
    \/ ParseTask
    \/ Prepare
    \/ DownloadOpen
    \/ DownloadRead
    \/ CheckTarget
    \/ BackupRename
    \/ RenameIn
    \/ SaveState
    \/ LaunchNew
    \/ Cleanup
    \/ FallbackTarget
    \/ FallbackBackup

Next ==
    \/ EnterUpdater
    \/ ExitUpdater
    \/ SkipCheck
    \/ MainCheck
    \/ Updater

Spec == Init /\ [][Next]_vars

\* Every started process keeps running: none of the two roles waits for
\* anything but the operating system.
FairSpec == Spec /\ WF_vars(Next)


(* ----------------------- the selector on its own ---------------------- *)

\* What the releases of these feeds hold: their tag and their assets.
\* The executable's own name without a version; a name with a version and
\* an upper-case suffix; an unrelated executable of a higher version beside
\* a text file; two assets that differ in their timestamp only; no
\* executable; and a product name whose version is in the tag alone.
Bodies ==
    { << Some(Nightly),
         << Asset(Some(TargetName), Some("https://dl/1"),
                  Some(Stamp(<< "0", "1" >>))) >> >>,
      << Some(VersionTag(<< "1", ".", "2", ".", "0" >>)),
         << Asset(Some(<< "A", "p", "p", "-", "1", ".", "2", ".", "0", ".",
                          "E", "X", "E" >>),
                  Some("https://dl/2"), Some(Stamp(<< "0", "2" >>))) >> >>,
      << Some(VersionTag(<< "2", ".", "0", ".", "0" >>)),
         << Asset(Some(<< "t", "o", "o", "l", "-", "2", ".", "0", ".", "0" >>
                       \o DotExe),
                  Some("https://dl/3"), None),
            Asset(Some(<< "n", "o", "t", "e", "s", ".", "t", "x", "t" >>),
                  Some("https://dl/4"), None) >> >>,
      << Some(VersionTag(<< "1", ".", "0", ".", "0" >>)),
         << Asset(Some(VersionedName(<< "1", ".", "0", ".", "0" >>)),
                  Some("https://dl/5"), Some(Stamp(<< "9" >>))),
            Asset(Some(VersionedName(<< "1", ".", "0", ".", "0" >>)),
                  Some("https://dl/6"), Some(Stamp(<< "1", "0" >>))) >> >>,
      << Some(VersionTag(<< "1", ".", "2", ".", "0" >>)),
         << Asset(Some(<< "n", "o", "t", "e", "s", ".", "t", "x", "t" >>),
                  Some("https://dl/7"), None) >> >>,
      << Some(VersionTag(<< "1", ".", "1", "0", ".", "0" >>)),
         << Asset(Some(<< "d", "a", "s", "h", "b", "o", "a", "r", "d" >>
                       \o DotExe),
                  Some("https://dl/8"), Some(Stamp(<< "0", "1" >>))) >> >> }

SelReleases ==
    { Release(d, p, b[1], b[2]) : d \in BOOLEAN, p \in BOOLEAN, b \in Bodies }

\* The feeds of n releases.
RECURSIVE FeedsOfLen(_)
FeedsOfLen(n) ==
    IF n = 0 THEN { << >> }
    ELSE { Append(f, r) : f \in FeedsOfLen(n - 1), r \in SelReleases }

SelFeeds == UNION { FeedsOfLen(n) : n \in 0..MaxReleases }

\* preferred_filename: the default "", the executable's name (also with
\* other case and blanks around it), and the product's name.
PreferredNames ==
    { << >>, TargetName,
      << " ", "A", "p", "p", ".", "e", "x", "e", " " >>,
      AdminDashboard \o DotExe }

SelectorInit ==
    /\ fs = Layout("orig", "none")
    /\ stateFile = AbsentFile
    /\ releases \in SelFeeds
    /\ preferred \in PreferredNames
    /\ pick = NoPick
    /\ emb = [c \in Contents |-> NoVer]
    /\ proc = NoProc
    /\ inst = Idle
    /\ log = << >>
    /\ last = Outcome("none", FALSE, FALSE)
    /\ lastCheck = "none"
    /\ DbInit
    /\ pair = << >>

SelectorNext == Select

SelectorSpec == SelectorInit /\ [][SelectorNext]_vars

(* ---------------------- the comparator on its own --------------------- *)

\* Versions of the running executable and of the assets' names.
CmpVersions ==
    { << "0", ".", "9", ".", "9" >>, << "1", ".", "0", ".", "0" >>,
      << "1", ".", "2", ".", "0" >>, << "1", ".", "2", ".", "0", ".", "1" >>,
      << "1", ".", "1", "0", ".", "0" >>, << "2", ".", "0", ".", "0" >> }

\* Feeds of one asset: a version in its name; or none in its name and a
\* tag that is missing, empty, a word, or a version.
CmpFeeds ==
    { OneAsset(Some(VersionTag(v)), Some(VersionedName(v)), Some(Url)) :
        v \in CmpVersions }
    \cup { OneAsset(tag, Some(TargetName), Some(Url)) :
             tag \in { None, Some(<< >>), Some(Nightly),
                       Some(VersionTag(<< "1", ".", "2", ".", "0" >>)),
                       Some(<< "1", ".", "2", ".", "0", ".", "0" >>) } }

\* State files: none, an unreadable one, and one written by an earlier
\* install of each identifier.
CmpStates ==
    { AbsentFile, CorruptFile }
    \cup { SavedFile(InstalledDict(EmptyDict, Some(id), Target)) :
             id \in { "", "nightly", "v1.2.0", "1.2.0.0" } }

\* Arguments of the application, some of them tokens of the updater's own
\* command line.
CmpArgvs ==
    { << "-x" >>,
      << "--", "-x" >>,
      << "--url", "https://dl/mine", "--target", "mine.exe" >>,
      << "-x", "--", "--remote-version", "9.9.9.9", "--" >> }

ComparatorInit ==
    /\ fs = Layout("orig", "none")
    /\ stateFile \in CmpStates
    /\ releases \in CmpFeeds
    /\ preferred = << >>
    /\ pick = NoPick
    /\ \E o \in { NoVer } \cup { ParseSemver(v) : v \in CmpVersions } :
          emb = [c \in Contents |-> IF c = "orig" THEN o ELSE NoVer]
    /\ \E a \in CmpArgvs :
          proc = [kind |-> "app", exe |-> Target, argv |-> a, frozen |-> TRUE]
    /\ inst = Idle
    /\ log = << >>
    /\ last = Outcome("none", FALSE, FALSE)
    /\ lastCheck = "none"
    /\ DbInit
    /\ pair = << >>

ComparatorNext == MainCheck

ComparatorSpec == ComparatorInit /\ [][ComparatorNext]_vars


(* ------------------------ the database on its own --------------------- *)

\* The update protocol at rest.
UpdaterAtRest ==
    /\ fs = Layout("orig", "none")
    /\ stateFile = AbsentFile
    /\ releases = << >>
    /\ preferred = << >>
    /\ pick = NoPick
    /\ emb = [c \in Contents |-> NoVer]
    /\ proc = NoProc
    /\ inst = Idle
    /\ log = << >>
    /\ last = Outcome("none", FALSE, FALSE)
    /\ lastCheck = "none"
    /\ pair = << >>

DbOnlyInit == UpdaterAtRest /\ DbInit

\* One caller: every call returns before the next one begins.
DbNext == Call(1)

DbSpec == DbOnlyInit /\ [][DbNext]_vars

\* Moderators in different processes create sanctions and redflags: the
\* calls of their sessions interleave.
DbConcurrentNext ==
    \E s \in Sessions :
        \/ CreateSanction(s)
        \/ CreateRedflag(s)
        \/ Rollback(s)
        \/ Commit(s)

DbConcurrentSpec == DbOnlyInit /\ [][DbConcurrentNext]_vars

(* ------------------------ two updaters at one time --------------------- *)

\* Lines 426-448: the tasks two main-role runs hand to their updaters.  Both
\* name the same target; the feed may have gained a release between the two
\* checks, so the two tasks name the same artifact or different ones.
PairTasks ==
    { [pc |-> "download", file |-> "new", remote_ver |-> Some("1.2.0.0"),
       dl |-> "none", tries |-> 0],
      [pc |-> "download", file |-> "newer", remote_ver |-> Some("1.3.0.0"),
       dl |-> "none", tries |-> 0] }

\* Lines 309-312: each updater downloads into a temporary directory of its
\* own (tempfile.mkdtemp).
PairDownload(i) ==
    /\ pair[i].pc = "download"
    /\ pair' = [pair EXCEPT ![i].pc = "install", ![i].dl = pair[i].file]
    /\ UNCHANGED << fs, stateFile, releases, preferred, pick, emb, proc, inst,
                  log, last, lastCheck, dbVars >>

\* Line 316: os.path.exists(target).
PairCheckTarget(i) ==
    /\ pair[i].pc = "install"
    /\ pair' = [pair EXCEPT
                  ![i].pc = IF Exists(Target) THEN "backup" ELSE "rename_in"]
    /\ UNCHANGED << fs, stateFile, releases, preferred, pick, emb, proc, inst,
                  log, last, lastCheck, dbVars >>

\* Lines 317-321: _replace_with_retry(target, backup).  os.replace raises
\* FileNotFoundError when the other updater has moved the target away; the
\* loop retries until its deadline and then raises.
PairBackupRename(i) ==
    /\ pair[i].pc = "backup"
    /\ \/ /\ Exists(Target)
          /\ fs' = Replace(Target, Backup(Target))
          /\ pair' = [pair EXCEPT ![i].pc = "rename_in", ![i].tries = 0]
       \/ /\ ~Exists(Target)
          /\ pair[i].tries < MaxTries
          /\ pair' = [pair EXCEPT ![i].tries = @ + 1]
          /\ fs' = fs
       \/ /\ ~Exists(Target)
          /\ pair' = [pair EXCEPT ![i].pc = "failed", ![i].tries = 0]
          /\ fs' = fs
    /\ UNCHANGED << stateFile, releases, preferred, pick, emb, proc, inst,
                  log, last, lastCheck, dbVars >>

\* Line 323: _replace_with_retry(dl_path, target); os.replace overwrites a
\* target that is there.
PairRenameIn(i) ==
    /\ pair[i].pc = "rename_in"
    /\ fs' = [fs EXCEPT ![Target] = pair[i].dl]
    /\ pair' = [pair EXCEPT ![i].pc = "save", ![i].dl = "none"]
    /\ UNCHANGED << stateFile, releases, preferred, pick, emb, proc, inst,
                  log, last, lastCheck, dbVars >>

\* Lines 325-331: the state is loaded, its four keys are set and it is saved.
PairSaveState(i) ==
    /\ pair[i].pc = "save"
    /\ stateFile' = SavedFile(InstalledDict(LoadState(stateFile),
                                            pair[i].remote_ver, Target))
    /\ pair' = [pair EXCEPT ![i].pc = "launch"]
    /\ UNCHANGED << fs, releases, preferred, pick, emb, proc, inst, log, last,
                  lastCheck, dbVars >>

\* Lines 333-361: after a failure the previous executable is relaunched;
\* after a success the target is launched and the backup is removed.
PairFinish(i) ==
    /\ \/ /\ pair[i].pc = "failed"
          /\ fs' = fs
       \/ /\ pair[i].pc = "launch"
          /\ fs' = [fs EXCEPT ![Backup(Target)] = "none"]
    /\ pair' = [pair EXCEPT ![i].pc = "done"]
    /\ UNCHANGED << stateFile, releases, preferred, pick, emb, proc, inst,
                  log, last, lastCheck, dbVars >>

PairInit ==
    /\ fs \in Layouts
    /\ stateFile \in
          { AbsentFile,
            SavedFile(InstalledDict(EmptyDict, Some("nightly"), Target)) }
    /\ releases = << >>
    /\ preferred = << >>
    /\ pick = NoPick
    /\ emb = [c \in Contents |-> NoVer]
    /\ proc = NoProc
    /\ inst = Idle
    /\ log = << >>
    /\ last = Outcome("none", FALSE, FALSE)
    /\ lastCheck = "none"
    /\ DbInit
    /\ pair \in [1..2 -> PairTasks]

\* The two processes share no lock: any of their steps may come next.
PairNext ==
    \/ \E i \in DOMAIN pair : PairDownload(i)
    \/ \E i \in DOMAIN pair : PairCheckTarget(i)
    \/ \E i \in DOMAIN pair : PairBackupRename(i)
    \/ \E i \in DOMAIN pair : PairRenameIn(i)
    \/ \E i \in DOMAIN pair : PairSaveState(i)
    \/ \E i \in DOMAIN pair : PairFinish(i)

PairSpec == PairInit /\ [][PairNext]_vars


(* ------------------------------ properties ----------------------------- *)

\* Event e is in the log of the current updater run.
InLog(e) == \E i \in 1..Len(log) : log[i] = e

\* Every occurrence of an event of set es has an event of set ds before it.
Preceded(es, ds) ==
    \A i \in 1..Len(log) :
        log[i] \in es => \E j \in 1..(i - 1) : log[j] \in ds

\* The current updater run has a task (url and target) and has parsed it.
Running == inst.pc \notin { "idle", "start" } /\ ~InLog("no_task")

\* The run went into the except block of _run_apply_update.
Failed ==
    InLog("prepare_error") \/ InLog("dl_error") \/ InLog("backup_fail")
        \/ InLog("in_fail")

RenameEvents == { "backup_ok", "backup_fail", "in_ok", "in_fail" }

\* C1: in every updater run a rename is attempted only after the download
\* has completed and its temp file is closed; when the target existed, the
\* rename-in is attempted only after the target was renamed to target+".old";
\* and after a download error no rename is attempted and the cut-short file
\* stays where it is.
C1_RenameAfterDownload ==
    Running =>
        /\ Preceded(RenameEvents, { "dl_closed" })
        /\ inst.pc \in { "backup", "rename_in" } =>
              InLog("dl_closed") /\ ~inst.dlOpen /\ inst.dl = "complete"
        /\ inst.t0 # "none" => Preceded({ "in_ok", "in_fail" }, { "backup_ok" })
        /\ (inst.pc = "rename_in" /\ inst.t0 # "none") => InLog("backup_ok")
        /\ InLog("dl_error") =>
              /\ \A e \in RenameEvents : ~InLog(e)
              /\ inst.pc \notin { "install", "backup", "rename_in" }
              /\ inst.dl \in { "none", "partial" }
              /\ fs[T] = inst.t0 /\ fs[B] = inst.b0

\* C1 witness: a run that renamed the target aside and then the download in.
C1_Witness ==
    Running /\ inst.t0 # "none" /\ InLog("dl_closed") /\ InLog("backup_ok")
        /\ InLog("in_ok")

\* C2: in an updater run that started with an executable at the target
\* path, a whole executable is at the target path or at target+".old" in
\* every state, also after the backup was deleted; and the target path is
\* empty only once the backup rename has succeeded and while the rename-in
\* has not.
C2_ExecutableKept ==
    (Running /\ Complete(inst.t0)) =>
        /\ Complete(fs[T]) \/ Complete(fs[B])
        /\ fs[T] # "none" => Complete(fs[T])
        /\ fs[T] = "none" => InLog("backup_ok") /\ ~InLog("in_ok")

\* C2 witness: the run has deleted the backup and the new executable is
\* at the target path.
C2_Witness ==
    Running /\ Complete(inst.t0) /\ InLog("rm_ok") /\ fs[T] = "new"
        /\ fs[B] = "none"

RelaunchTarget == { "relaunch_target_ok", "relaunch_target_raise" }

RelaunchBackup == { "relaunch_backup_ok", "relaunch_backup_raise" }

\* C3: a failed updater run has, when it returns, tried to launch the
\* target if it exists, tried the backup exactly when the target does not
\* exist or its launch raised and the backup exists, launched at most one
\* of them, and passed the task's passthrough arguments; started with the
\* target absent and the backup present, a failing download ends with the
\* backup's launch tried and the target still absent.
C3_RelaunchFirstExisting ==
    (Running /\ Failed /\ inst.pc = "exit") =>
        /\ Exists(T) <=> \E e \in RelaunchTarget : InLog(e)
        /\ (Exists(B) /\ (~Exists(T) \/ InLog("relaunch_target_raise")))
              <=> \E e \in RelaunchBackup : InLog(e)
        /\ ~(InLog("relaunch_target_ok") /\ InLog("relaunch_backup_ok"))
        /\ InLog("relaunch_target_ok") =>
              proc = Started(T, ParseApplyArgs(inst.argv).passthrough)
        /\ InLog("relaunch_backup_ok") =>
              proc = Started(B, ParseApplyArgs(inst.argv).passthrough)
        /\ (~InLog("relaunch_target_ok") /\ ~InLog("relaunch_backup_ok")) =>
              proc = NoProc
        /\ (inst.t0 = "none" /\ inst.b0 # "none" /\ InLog("dl_error")) =>
              /\ \E e \in RelaunchBackup : InLog(e)
              /\ fs[T] = "none"

\* C3 witness: target absent, backup present, the download failed and the
\* backup was relaunched.
C3_Witness ==
    /\ Running /\ inst.pc = "exit"
    /\ inst.t0 = "none" /\ inst.b0 # "none"
    /\ InLog("dl_error") /\ InLog("relaunch_backup_ok")
    /\ proc = Started(B, << "-x" >>)
    /\ fs[T] = "none"


\* The task of the current updater run, as its arguments give it.
Task == ParseApplyArgs(inst.argv)

\* C4 (as claimed): an updater run that returns without the new version
\* running has started a process, or has tried to launch every one of
\* target and target+".old" that exists.
C4_AlwaysRelaunch ==
    (inst.pc = "exit" /\ ~InLog("launch_new_ok") /\ Truthy(inst.target)) =>
        \/ InLog("relaunch_target_ok")
        \/ InLog("relaunch_backup_ok")
        \/ /\ Exists(T) =>
                 \E e \in RelaunchTarget \cup { "launch_new_raise" } : InLog(e)
           /\ Exists(B) => \E e \in RelaunchBackup : InLog(e)

\* C5 (as claimed): a failed run that began with an executable at the
\* target path ends with that executable at the target path again.
C5_RolledBack ==
    (Running /\ Failed /\ inst.pc = "exit" /\ inst.t0 # "none") =>
        fs[T] = inst.t0

\* C5 (amended): a failed run that began with an executable at the target
\* path ends with that executable unchanged at the target path when the
\* backup rename did not succeed, and at target+".old" with the target path
\* empty when it did: nothing is renamed back.
C5_OriginalKept ==
    (Running /\ Failed /\ inst.pc \in { "failed", "failed_backup", "exit" }
       /\ inst.t0 # "none") =>
        IF InLog("backup_ok")
        THEN fs[T] = "none" /\ fs[B] = inst.t0 /\ InLog("in_fail")
        ELSE fs[T] = inst.t0 /\ fs[B] = inst.b0

\* C5 witness: the backup rename succeeded, the rename-in failed, the run
\* has returned.
C5_Witness ==
    /\ Running /\ inst.pc = "exit" /\ inst.t0 = "orig"
    /\ InLog("backup_ok") /\ InLog("in_fail")
    /\ fs[T] = "none" /\ fs[B] = "orig"

\* What holds of a run whose backup rename failed for good, apart from
\* which executable it relaunches.
BackupFailedIntact ==
    /\ fs[T] = inst.t0 /\ fs[B] = inst.b0
    /\ ~InLog("in_ok") /\ ~InLog("in_fail")
    /\ inst.pc # "rename_in"
    /\ inst.dl = "complete"
    /\ ~InLog("save_ok") /\ ~InLog("save_fail")
    /\ stateFile = inst.s0

\* C6 (as claimed): after a definitive failure of the backup rename the
\* original is still at the target path, the rename-in is not attempted,
\* the state is not written, and the executable relaunched is the target.
C6_RelaunchesTarget ==
    (Running /\ InLog("backup_fail")) =>
        /\ BackupFailedIntact
        /\ ~InLog("relaunch_backup_ok")
        /\ inst.pc = "exit" => proc \in { NoProc, Started(T, Task.passthrough) }

\* C6 (amended): ... and the first executable whose relaunch is tried is
\* the unchanged target; target+".old" is tried only after that launch
\* raised.
C6_TargetTriedFirst ==
    (Running /\ InLog("backup_fail")) =>
        /\ BackupFailedIntact
        /\ inst.pc \in { "failed_backup", "exit" } =>
              \E e \in RelaunchTarget : InLog(e)
        /\ Preceded(RelaunchBackup, { "relaunch_target_raise" })
        /\ InLog("relaunch_target_ok") =>
              proc = Started(T, Task.passthrough) /\ inst.pc = "exit"

\* C6 witness: the backup rename failed and the unchanged target runs again.
C6_Witness ==
    /\ Running /\ inst.pc = "exit" /\ InLog("backup_fail")
    /\ InLog("relaunch_target_ok") /\ fs[T] = "orig"
    /\ proc = Started(T, << "-x" >>)

\* The state file a successful write of the run leaves.
WrittenState ==
    SavedFile([k \in { "installed_remote_version", "installed_remote_id",
                       "installed_at", "installed_path" } |->
                 IF k = "installed_at" THEN Some("now")
                 ELSE IF k = "installed_path" THEN Some(T)
                 ELSE Task.remote_ver])

\* The events of the run after the rename-in succeeded.
AfterInstall ==
    LET k == CHOOSE i \in 1..Len(log) : log[i] = "in_ok"
    IN  SubSeq(log, k + 1, Len(log))

\* C7 (as claimed): once both renames have succeeded and the run has
\* returned, the state holds the task's identifier and the target path and
\* the new target has been launched with the passthrough arguments.
C7_PersistedAndLaunched ==
    (Running /\ InLog("in_ok") /\ inst.pc = "exit") =>
        /\ stateFile = WrittenState
        /\ InLog("launch_new_ok")
        /\ proc = Started(T, Task.passthrough)

\* C7 (amended): after both renames succeeded the run, in this order,
\* tries to write the state (when the write succeeds the file holds the
\* task's identifier and the target path), tries once to launch the new
\* target with the passthrough arguments, and only when that launch did not
\* raise tries to delete target+".old"; a failed deletion leaves the
\* backup and changes nothing else.
C7_SaveLaunchCleanup ==
    (Running /\ InLog("in_ok")) =>
        LET a == AfterInstall
        IN  /\ Len(a) <= 3
            /\ Len(a) >= 1 => a[1] \in { "save_ok", "save_fail" }
            /\ Len(a) >= 2 => a[2] \in { "launch_new_ok", "launch_new_raise" }
            /\ Len(a) >= 3 =>
                  a[2] = "launch_new_ok" /\ a[3] \in { "rm_ok", "rm_fail" }
            /\ inst.pc = "save" <=> Len(a) = 0
            /\ inst.pc = "launch" <=> Len(a) = 1
            /\ inst.pc = "cleanup" => Len(a) = 2 /\ a[2] = "launch_new_ok"
            /\ InLog("save_ok") => stateFile = WrittenState
            /\ InLog("save_fail") => stateFile \in { inst.s0, CorruptFile }
            /\ InLog("launch_new_ok") => proc = Started(T, Task.passthrough)
            /\ InLog("launch_new_raise") => proc = NoProc
            /\ fs[T] = "new"
            /\ InLog("rm_ok") => fs[B] = "none"
            /\ InLog("rm_fail") =>
                  /\ fs[B] # "none"
                  /\ fs[B] = IF InLog("backup_ok") THEN inst.t0 ELSE inst.b0

\* C7 witness: state written, new target launched, deletion failed.
C7_Witness ==
    /\ Running /\ inst.pc = "exit" /\ InLog("backup_ok") /\ InLog("in_ok")
    /\ AfterInstall = << "save_ok", "launch_new_ok", "rm_fail" >>
    /\ stateFile = WrittenState
    /\ proc = Started(T, << "-x" >>)

\* C8: the state file changes only in the step of an updater run that
\* follows its successful renames, and then it holds exactly the run's
\* identifier and target (or is unreadable after a write that was cut
\* short): no main-role invocation and no failed run changes it, and no
\* earlier identifier is kept.
C8_StateOwnedByInstaller ==
    [][stateFile' # stateFile =>
          /\ inst.pc = "save"
          /\ InLog("in_ok")
          /\ inst.t0 # "none" => InLog("backup_ok")
          /\ ~Failed
          /\ stateFile' \in { WrittenState, CorruptFile }]_vars

\* C8 witness: a successful install has replaced an earlier identifier.
C8_Witness ==
    /\ Running /\ InLog("save_ok")
    /\ InstalledId(LoadState(inst.s0)) = Some("nightly")
    /\ InstalledId(LoadState(stateFile)) = Some("1.2.0.0")
    /\ DOMAIN LoadState(stateFile) = DOMAIN LoadState(inst.s0)

\* C9 (as claimed): the chain of checks, updaters and relaunched
\* applications starts only finitely many updaters.
C9_Converges == <>[](inst.pc = "idle" /\ proc.kind # "updater")

\* C10 (as claimed): a check that follows a check which decided (no update,
\* or an updater that has since returned) starts no updater.
C10_SecondCheckSpawnsNone ==
    [][(proc.kind = "app" /\ inst.pc = "idle"
          /\ lastCheck \in { "no_update", "spawned" })
        => proc'.kind # "updater"]_vars

\* The state file holds what a successful updater run for the selected
\* asset pick wrote, and the executable it installed is the one started.
InstalledFor(pk) ==
    /\ pk.found
    /\ stateFile.kind = "json"
    /\ Get(stateFile.dict, "installed_remote_id")
          = Some(IF Truthy(RemoteId(pk)) THEN RemoteId(pk)[1] ELSE "")
    /\ Get(stateFile.dict, "installed_path") = Some(proc.exe)
    /\ fs[proc.exe] = "new"

\* C11 (as claimed): once an updater spawned for the selected asset has
\* installed it and written the state file, the check of the application
\* it started decides, for the same asset and with the state reloaded, that
\* no update is needed.
C11_RoundTrip ==
    [][(proc.kind = "app" /\ inst.pc = "idle" /\ lastCheck = "spawned"
          /\ InstalledFor(pick) /\ pick' = pick /\ proc' # proc)
        => (proc'.kind # "updater"
            /\ lastCheck' \notin { "copy_failed", "spawn_failed" })]_vars

\* The last check selected an asset with a download URL and decided.
Decided == lastCheck \in { "no_update", "copy_failed", "spawn_failed", "spawned" }

\* The decision of the last check was to update.
DecidedUpdate == lastCheck \in { "copy_failed", "spawn_failed", "spawned" }

\* a > b in the lexicographic order of 4-tuples of integers, from
\* component i on.
RECURSIVE LexGT(_, _, _)
LexGT(a, b, i) ==
    IF i > 4 THEN FALSE
    ELSE IF a[i] # b[i] THEN a[i] > b[i]
    ELSE LexGT(a, b, i + 1)

\* C12: when the running executable's version and the selected asset's
\* version both exist, the check decides to update exactly when the asset's
\* 4-tuple is greater than the running one in lexicographic integer order,
\* whatever the state file holds.
C12_TupleOrder ==
    (Decided /\ CurrentVersion(Target) # NoVer /\ pick.version_tuple # NoVer)
        => (DecidedUpdate
              <=> LexGT(pick.version_tuple, CurrentVersion(Target), 1))

\* C12 witness: running 1.0.0.0, AdminDashboard-1.2.0.exe selected, and an
\* updater spawned although the state file names 1.2.0.0 as installed.
C12_Witness ==
    /\ lastCheck = "spawned"
    /\ CurrentVersion(Target) = << 1, 0, 0, 0 >>
    /\ pick.asset_name = Some("AdminDashboard-1.2.0.exe")
    /\ InstalledId(LoadState(stateFile)) = Some("1.2.0.0")

\* The version parse_semver finds in the selected asset's file name, and
\* the one it finds in the tag of its release.
NameVersion == ParseSemver(OrEmpty(Best(releases, preferred).asset.name))

TagVersion == ParseSemver(OrEmpty(Best(releases, preferred).rel.tag_name))

\* C13 (as claimed): when the selected asset's file name holds no version
\* and its release tag equals the installed identifier, the check decides
\* not to update, whether or not the tag holds a version.
C13_ShortCircuit ==
    (Decided /\ NameVersion = NoVer
       /\ pick.release_tag = InstalledId(LoadState(stateFile)))
        => ~DecidedUpdate

\* C13 (amended): when neither the file name nor the release tag of the
\* selected asset holds a version and the tag equals the installed
\* identifier, the check decides not to update, whatever the running
\* executable's version; a version in the tag alone is the asset's version.
C13_ShortCircuitUnversioned ==
    Decided =>
        /\ (pick.version_tuple = NoVer
              /\ pick.release_tag = InstalledId(LoadState(stateFile)))
             => ~DecidedUpdate
        /\ pick.version_tuple = OrVer(NameVersion, TagVersion)

\* C13 witness: running 1.0.0.0, the asset app.exe of the release tagged
\* nightly selected, nightly installed: no update.
C13_Witness ==
    /\ lastCheck = "no_update"
    /\ CurrentVersion(Target) = << 1, 0, 0, 0 >>
    /\ pick.asset_name = Some("app.exe")
    /\ pick.version_tuple = NoVer
    /\ pick.release_tag = Some("nightly")
    /\ InstalledId(LoadState(stateFile)) = Some("nightly")

\* The identifier of the selected asset: its version's four numbers joined
\* by dots when it has a version, else its release tag.
RemoteIdentifier ==
    IF pick.version_tuple # NoVer
    THEN Some(ToString(pick.version_tuple[1]) \o "."
              \o ToString(pick.version_tuple[2]) \o "."
              \o ToString(pick.version_tuple[3]) \o "."
              \o ToString(pick.version_tuple[4]))
    ELSE pick.release_tag

\* C14: when the running executable's version cannot be read or the
\* selected asset has no version, the check decides to update exactly when
\* the asset's identifier differs from the installed identifier of the
\* state file, a missing or unreadable state file having none.
C14_IdentifierDiffers ==
    (Decided /\ (CurrentVersion(Target) = NoVer \/ pick.version_tuple = NoVer))
        => (DecidedUpdate
              <=> RemoteIdentifier # InstalledId(LoadState(stateFile)))

\* C14 witness: the running version is unreadable, version 1.10.0 is
\* selected, 1.2.0.0 is installed: an updater is spawned.
C14_Witness ==
    /\ lastCheck = "spawned"
    /\ CurrentVersion(Target) = NoVer
    /\ pick.version_tuple = << 1, 10, 0, 0 >>
    /\ RemoteIdentifier = Some("1.10.0.0")
    /\ InstalledId(LoadState(stateFile)) = Some("1.2.0.0")

\* The name of asset a ends in ".exe", in any case of the letters.
EndsInExe(a) ==
    LET n == OrEmpty(a.name)
    IN  Len(n) >= 4 /\ Lower(SubSeq(n, Len(n) - 3, Len(n))) = DotExe

\* Release rel has an executable asset.
HasExe(rel) == \E j \in 1..Len(rel.assets) : EndsInExe(rel.assets[j])

\* The feed has a release that is neither draft nor prerelease and has an
\* executable asset.
HasStableExe ==
    \E i \in 1..Len(releases) :
        ~releases[i].draft /\ ~releases[i].prerelease /\ HasExe(releases[i])

\* The feed has a release that is no draft and has an executable asset.
HasEligibleExe ==
    \E i \in 1..Len(releases) : ~releases[i].draft /\ HasExe(releases[i])

\* C15: for a feed with a release that is neither draft nor prerelease and
\* has an executable asset, the selection returns an asset and takes it
\* from no prerelease.
C15_StableFirst ==
    (lastCheck = "selected" /\ HasStableExe) =>
        LET best == Best(releases, preferred)
        IN  /\ pick = Returned(best)
            /\ pick.found
            /\ ~best.rel.prerelease

\* C15 witness: a prerelease whose asset has the higher tier and the higher
\* version comes before a stable release, and the stable asset is returned.
C15_Witness ==
    /\ lastCheck = "selected"
    /\ preferred = AdminDashboard \o DotExe
    /\ Len(releases) = 2
    /\ releases[1].prerelease /\ ~releases[1].draft
    /\ releases[1].assets[1].browser_download_url = Some("https://dl/8")
    /\ ~releases[2].prerelease /\ ~releases[2].draft
    /\ pick.download_url = Some("https://dl/2")

\* C16: the selection never takes its result from a draft release, in
\* either pass.
C16_NoDraft ==
    (lastCheck = "selected" /\ pick.found) =>
        LET best == Best(releases, preferred)
        IN  /\ pick = Returned(best)
            /\ ~best.rel.draft

\* C16 witness: a draft holds the asset with the executable's own name; the
\* asset of a prerelease is returned by the second pass.
C16_Witness ==
    /\ lastCheck = "selected"
    /\ preferred = TargetName
    /\ Len(releases) = 2
    /\ releases[1].draft /\ ~releases[1].prerelease
    /\ releases[1].assets[1].browser_download_url = Some("https://dl/1")
    /\ releases[2].prerelease /\ ~releases[2].draft
    /\ pick.download_url = Some("https://dl/3")

\* The name-affinity tier of the asset called name when the preferred file
\* name, stripped and in lower case, is preferred_lc.
TierOf(name, preferred_lc) ==
    Prefer(Lower(OrEmpty(name)), preferred_lc, PreferredStem(preferred_lc))

\* C17: the selection returns nothing exactly when no release that is not
\* a draft has an asset whose name ends in ".exe" in any case; and when the
\* only such releases are prereleases it returns an executable asset of a
\* prerelease whose tier no other such asset exceeds.
C17_PrereleaseFallback ==
    lastCheck = "selected" =>
        LET best == Best(releases, preferred)
            preferred_lc == Lower(Strip(preferred))
        IN  /\ pick = Returned(best)
            /\ pick.found <=> HasEligibleExe
            /\ (HasEligibleExe /\ ~HasStableExe) =>
                  /\ best.rel.prerelease /\ ~best.rel.draft
                  /\ EndsInExe(best.asset)
                  /\ \A i \in 1..Len(releases) :
                        ~releases[i].draft =>
                            \A j \in 1..Len(releases[i].assets) :
                                EndsInExe(releases[i].assets[j]) =>
                                    best.key.prefer >=
                                        TierOf(releases[i].assets[j].name, preferred_lc)

\* C17 witness: two prereleases; the asset with the executable's own name
\* is returned although the other one has a version, and a higher one.
C17_Witness ==
    /\ lastCheck = "selected"
    /\ preferred = TargetName
    /\ Len(releases) = 2
    /\ releases[1].prerelease /\ ~releases[1].draft
    /\ releases[1].assets[1].browser_download_url = Some("https://dl/3")
    /\ releases[2].prerelease /\ ~releases[2].draft
    /\ pick.download_url = Some("https://dl/1")
    /\ pick.version_tuple = NoVer

\* The key of asset j of release i as the seven values it is compared by:
\* tier, has-version, the four version numbers (from the file name, failing
\* that from the release tag, zeros when neither has one), updated_at.
KeyAt(i, j, preferred_lc) ==
    LET a  == releases[i].assets[j]
        nv == ParseSemver(OrEmpty(a.name))
        v  == IF nv # NoVer THEN nv
              ELSE ParseSemver(OrEmpty(releases[i].tag_name))
    IN  IF v # NoVer
        THEN << TierOf(a.name, preferred_lc), 1, v[1], v[2], v[3], v[4],
                OrEmpty(a.updated_at) >>
        ELSE << TierOf(a.name, preferred_lc), 0, 0, 0, 0, 0,
                OrEmpty(a.updated_at) >>

\* The same seven values of the key the selection kept.
KeyKept(key) ==
    << key.prefer, IF key.has_v THEN 1 ELSE 0, key.v[1], key.v[2], key.v[3],
       key.v[4], key.updated_at >>

\* Key k is lexicographically greater than key b.
Exceeds(k, b) ==
    \E p \in 1..7 :
        /\ \A q \in 1..(p - 1) : k[q] = b[q]
        /\ IF p = 7 THEN StrGT(k[7], b[7]) ELSE k[p] > b[p]

\* Asset j of release i is a candidate of the pass that yields candidates.
InYieldingPass(i, j) ==
    /\ ~releases[i].draft
    /\ HasStableExe => ~releases[i].prerelease
    /\ EndsInExe(releases[i].assets[j])

\* C18: the returned asset is a candidate of the pass that yields
\* candidates, and no candidate of that pass has a key lexicographically
\* greater than its key (tier, has-version, version from the file name or
\* failing that the release tag, updated_at).
C18_GreatestKey ==
    (lastCheck = "selected" /\ pick.found) =>
        LET best         == Best(releases, preferred)
            preferred_lc == Lower(Strip(preferred))
            kept         == KeyKept(best.key)
        IN  /\ pick = Returned(best)
            /\ \E i \in 1..Len(releases) :
                  \E j \in 1..Len(releases[i].assets) :
                      /\ InYieldingPass(i, j)
                      /\ releases[i].assets[j] = best.asset
                      /\ KeyAt(i, j, preferred_lc) = kept
            /\ \A i \in 1..Len(releases) :
                  \A j \in 1..Len(releases[i].assets) :
                      InYieldingPass(i, j) =>
                          ~Exceeds(KeyAt(i, j, preferred_lc), kept)

\* C18 witness: two stable releases; the unversioned asset with the
\* executable's own name is returned and not the versioned one of tier 0.
C18_Witness ==
    /\ lastCheck = "selected"
    /\ preferred = TargetName
    /\ Len(releases) = 2
    /\ \A i \in 1..2 : ~releases[i].draft /\ ~releases[i].prerelease
    /\ releases[1].assets[1].browser_download_url = Some("https://dl/3")
    /\ releases[2].assets[1].browser_download_url = Some("https://dl/1")
    /\ pick.download_url = Some("https://dl/1")
    /\ pick.version_tuple = NoVer

\* C18 second case: of two assets alike in tier and version, the one whose
\* updated_at string is greater is returned.
C18_WitnessStamp ==
    /\ lastCheck = "selected"
    /\ Len(releases) = 1
    /\ Len(releases[1].assets) = 2
    /\ releases[1].assets[1].updated_at = Some(Stamp(<< "9" >>))
    /\ releases[1].assets[2].updated_at = Some(Stamp(<< "1", "0" >>))
    /\ pick.download_url = releases[1].assets[1].browser_download_url

\* A step of the main role: the packaged application runs the update check.
MainStep ==
    /\ proc.kind = "app"
    /\ inst.pc = "idle"
    /\ proc.frozen
    /\ ~InArgv("--apply-update", proc.argv)
    /\ ~InArgv("--skip-update", proc.argv)
    /\ proc' # proc

\* The check that has just run returned False without an updater started.
ProceededWithoutUpdating ==
    /\ last'.role = "main"
    /\ last'.ret = FALSE
    /\ last'.spawned = FALSE
    /\ proc' = NoProc

\* C19 as stated: whenever the check of the main role meets a failed fetch,
\* no selectable asset, an unreadable state file, a failed self-copy or a
\* failed spawn, it returns False and no updater runs.
C19_FailureProceeds ==
    [][(MainStep /\ (\/ lastCheck' \in { "fetch_failed", "no_pick",
                                          "copy_failed", "spawn_failed" }
                     \/ stateFile.kind = "corrupt"))
          => ProceededWithoutUpdating]_vars

\* C19 amended: the check of the main role always returns; on a failed
\* fetch, no selectable asset, a failed self-copy or a failed spawn it
\* returns False and no updater runs; an unreadable state file is no
\* failure: it counts as nothing installed and the decision is taken as
\* without a state file.
C19_FailureProceedsReadable ==
    [][MainStep =>
          /\ last'.role = "main"
          /\ last'.ret = last'.spawned
          /\ last'.spawned <=> proc'.kind = "updater"
          /\ lastCheck' \in { "fetch_failed", "no_pick", "copy_failed",
                              "spawn_failed" } => ProceededWithoutUpdating
          /\ (stateFile.kind = "corrupt"
              /\ lastCheck' \in { "no_update", "copy_failed", "spawn_failed",
                                  "spawned" })
                => (lastCheck' = "no_update"
                      <=> ~NeedsUpdate(CurrentVersion(proc.exe), pick', None))
      ]_vars

\* C19 witness: the state file is unreadable, an update is due, the spawn
\* of the updater failed, and the check returned False with no updater.
C19_Witness ==
    /\ lastCheck = "spawn_failed"
    /\ stateFile = CorruptFile
    /\ pick.version_tuple = << 1, 2, 0, 0 >>
    /\ last = [role |-> "main", ret |-> FALSE, spawned |-> FALSE]
    /\ proc = NoProc

\* C19, the case the statement gets wrong: the state file is unreadable and
\* the check started an updater and returned True.
C19_WitnessUnreadable ==
    /\ lastCheck = "spawned"
    /\ stateFile = CorruptFile
    /\ last = [role |-> "main", ret |-> TRUE, spawned |-> TRUE]
    /\ proc.kind = "updater"

\* C20: a process whose arguments hold --apply-update runs the updater and
\* nothing else: it takes the updater role with its arguments; while the
\* updater runs nothing is fetched or selected, and the only process it
\* starts is the application at the target or its backup, with the
\* passthrough arguments and without --apply-update; and it ends only by
\* returning True, whether it had no task, failed or installed.
C20_UpdaterOnly ==
    [][/\ (/\ proc.kind # "none"
           /\ InArgv("--apply-update", proc.argv)
           /\ inst.pc = "idle"
           /\ proc' # proc)
          => (/\ inst'.pc = "start"
              /\ inst'.argv = proc.argv
              /\ lastCheck' = lastCheck /\ pick' = pick /\ last' = last)
       /\ inst.pc # "idle" =>
             /\ lastCheck' = lastCheck /\ pick' = pick /\ preferred' = preferred
             /\ proc' # proc =>
                   /\ proc'.kind = "app"
                   /\ proc'.exe \in { T, B }
                   /\ proc'.argv = inst.passthrough
                   /\ ~InArgv("--apply-update", proc'.argv)
             /\ inst'.pc = "idle" =>
                   /\ inst.pc = "exit"
                   /\ last'.role = "updater"
                   /\ last'.ret = TRUE
                   /\ last'.spawned = FALSE
      ]_vars

\* C20 witness: an updater has installed the new executable, started it
\* with the passthrough arguments and returned True; nothing was fetched.
C20_Witness ==
    /\ inst = Idle
    /\ last = [role |-> "updater", ret |-> TRUE, spawned |-> FALSE]
    /\ lastCheck = "none"
    /\ fs[Target] = "new"
    /\ proc = [kind |-> "app", exe |-> Target, argv |-> << "-x" >>,
               frozen |-> TRUE]

\* C20, a task without url or target: the updater has returned True and
\* nothing is started or changed.
C20_WitnessNoTask ==
    /\ inst = Idle
    /\ last = [role |-> "updater", ret |-> TRUE, spawned |-> FALSE]
    /\ lastCheck = "none"
    /\ proc = NoProc
    /\ fs = Layout("orig", "none")
    /\ stateFile = AbsentFile

\* C20, a failed install: the updater has started the previous executable
\* again and returned True.
C20_WitnessFailed ==
    /\ inst = Idle
    /\ last = [role |-> "updater", ret |-> TRUE, spawned |-> FALSE]
    /\ lastCheck = "none"
    /\ fs[Target] = "orig"
    /\ proc = [kind |-> "app", exe |-> Target, argv |-> << "-x" >>,
               frozen |-> TRUE]

\* C21: a process of the main role that is not packaged, or has
\* --skip-update among its arguments, returns False and has fetched and
\* selected nothing, left the state file and the directory as they were,
\* and started no process.
C21_SuppressedDoesNothing ==
    [][(/\ proc.kind = "app"
        /\ inst.pc = "idle"
        /\ ~InArgv("--apply-update", proc.argv)
        /\ ~proc.frozen \/ InArgv("--skip-update", proc.argv)
        /\ proc' # proc)
          => (/\ last' = [role |-> "main", ret |-> FALSE, spawned |-> FALSE]
              /\ proc' = NoProc
              /\ lastCheck' = lastCheck /\ pick' = pick
              /\ preferred' = preferred
              /\ stateFile' = stateFile
              /\ fs' = fs
              /\ inst' = inst)
      ]_vars

\* C21 witness: a newer asset is in the feed and the process has returned
\* False without a check.
C21_Witness ==
    /\ last = [role |-> "main", ret |-> FALSE, spawned |-> FALSE]
    /\ lastCheck = "none"
    /\ pick = NoPick
    /\ proc = NoProc
    /\ inst = Idle
    /\ releases = OneAsset(Some(VersionTag(<< "1", ".", "2", ".", "0" >>)),
                           Some(VersionedName(<< "1", ".", "2", ".", "0" >>)),
                           Some(Url))
    /\ emb["orig"] = V1
    /\ fs = Layout("orig", "none")

\* The last call of handle_update_flow was a check of the main role that
\* ended as lastCheck says.
MainEnded(how) == last.role = "main" /\ lastCheck = how

\* C22 as stated: a check of the main role that has spawned the updater
\* returns what a check without an update returns, False, and not the True
\* of the updater role.
C22_SpawnedProceeds ==
    MainEnded("spawned") => last.ret = FALSE

\* C22 amended: a check of the main role that has spawned the updater
\* returns True, the value the updater role returns, and not the False of
\* a check that found no update.
C22_SpawnedReturnsTrue ==
    /\ MainEnded("spawned") => (last.ret = TRUE /\ last.spawned)
    /\ MainEnded("no_update") => (last.ret = FALSE /\ ~last.spawned)
    /\ last.role = "updater" => last.ret = TRUE

\* C22 witness: the check has spawned the updater with its task and has
\* returned True.
C22_Witness ==
    /\ MainEnded("spawned")
    /\ last.ret = TRUE
    /\ proc.kind = "updater"
    /\ InArgv("--apply-update", proc.argv)
    /\ inst = Idle

\* Session s ends a call of operation op in this step.
Returns(s, op) ==
    sess[s].pc = "open" /\ sess[s].op = op /\ sess'[s].pc = "idle"

\* The rows this step appends to table sanctions.
Appended == SubSeq(sanctions', Len(sanctions) + 1, Len(sanctions'))

\* How many of the rows have type sanction_type.
CountOf(rows, sanction_type) ==
    Cardinality({ i \in 1..Len(rows) : rows[i].sanction_type = sanction_type })

\* This step appends to table sanctions and changes no row of it.
AppendOnly ==
    /\ Len(sanctions') >= Len(sanctions)
    /\ SubSeq(sanctions', 1, Len(sanctions)) = sanctions

\* C23: a successful update_last_seen appends exactly one
\* 'last_seen_update' row; for a player without a record it creates the
\* record with the given username, a last_seen and an empty name history
\* and appends no 'username_update' row; for a record with another username
\* it appends exactly one 'username_update' row, from the old name to the
\* new one.
C23_LastSeenHistory ==
    [][(Returns(1, "update_last_seen") /\ returned'.ok) =>
          LET id == sess[1].playfab_id
              u  == sess[1].username
          IN  /\ AppendOnly
              /\ CountOf(Appended, "last_seen_update") = 1
              /\ id \notin DOMAIN players =>
                    /\ players'[id].username = u
                    /\ players'[id].last_seen # None
                    /\ players'[id].name_history = << >>
                    /\ CountOf(Appended, "username_update") = 0
              /\ (id \in DOMAIN players /\ players[id].username # u) =>
                    /\ CountOf(Appended, "username_update") = 1
                    /\ \A i \in 1..Len(Appended) :
                          Appended[i].sanction_type = "username_update" =>
                              /\ Appended[i].previous_username
                                    = players[id].username
                              /\ Appended[i].username = u
                              /\ Appended[i].playfab_id = id
      ]_vars

\* C23 witness: Alice was seen and then seen as Bob; the table holds the
\* row of the first call and the two rows of the second.
C23_Witness ==
    /\ returned.op = "update_last_seen" /\ returned.ok
    /\ players["P1"].username = Some("Bob")
    /\ Len(sanctions) = 3
    /\ sanctions[1].sanction_type = "last_seen_update"
    /\ sanctions[1].username = Some("Alice")
    /\ sanctions[2].sanction_type = "username_update"
    /\ sanctions[2].previous_username = Some("Alice")
    /\ sanctions[2].username = Some("Bob")
    /\ sanctions[3].sanction_type = "last_seen_update"

\* The operations that carry a username.
IdentityOps == { "update_last_seen", "redflag" } \cup SanctionTypes

\* List xs holds no value twice.
NoDuplicates(xs) == \A i, j \in 1..Len(xs) : xs[i] = xs[j] => i = j

\* C24: every successful update_last_seen, create_sanction and
\* create_redflag leaves the record with the username of the call, keeps
\* the names the history held, has the replaced username in the history
\* when it differs from the new one, and leaves no name twice in it.
C24_NameHistory ==
    [][\A op \in IdentityOps :
          (Returns(1, op) /\ returned'.ok) =>
              LET id  == sess[1].playfab_id
                  new == players'[id]
              IN  /\ new.username = sess[1].username
                  /\ NoDuplicates(new.name_history)
                  /\ id \in DOMAIN players =>
                        /\ \A i \in 1..Len(players[id].name_history) :
                              InList(players[id].name_history[i],
                                     new.name_history)
                        /\ (/\ players[id].username # None
                            /\ players[id].username # sess[1].username)
                              => InList(players[id].username[1],
                                        new.name_history)
      ]_vars

\* C24 witness: the player was Alice, Bob, Alice and Bob again: both names
\* are in the history, once each.
C24_Witness ==
    /\ "P1" \in DOMAIN players
    /\ players["P1"].username = Some("Bob")
    /\ players["P1"].name_history = << "Alice", "Bob" >>
    /\ clock = 4
    /\ returned.ok
    /\ Len(sanctions) + Len(redflags) >= 4

\* C25: a successful create_sanction leaves a record with the username of
\* the call and a new last_seen, created when there was none; it appends
\* one row of the requested type, one 'username_update' row before it
\* exactly when the record existed with another username, and no
\* 'last_seen_update' row.
C25_SanctionRows ==
    [][\A t \in SanctionTypes :
          (Returns(1, t) /\ returned'.ok) =>
              LET id      == sess[1].playfab_id
                  u       == sess[1].username
                  changed == id \in DOMAIN players /\ players[id].username # u
                  n       == Len(Appended)
              IN  /\ AppendOnly
                  /\ id \in DOMAIN players'
                  /\ players'[id].username = u
                  /\ players'[id].last_seen = Some(clock)
                  /\ id \in DOMAIN players =>
                        /\ players'[id].note = players[id].note
                        /\ players'[id].last_seen # players[id].last_seen
                  /\ CountOf(Appended, t) = 1
                  /\ Appended[n].sanction_type = t
                  /\ Appended[n].username = u
                  /\ Appended[n].playfab_id = id
                  /\ CountOf(Appended, "username_update")
                        = IF changed THEN 1 ELSE 0
                  /\ CountOf(Appended, "last_seen_update") = 0
                  /\ n = IF changed THEN 2 ELSE 1
                  /\ returned'.obj = Appended[n]
      ]_vars

\* C25 witness: a ban of Alice and a kick of the same player as Bob leave
\* three rows: the ban, the 'username_update' and the kick.
C25_Witness ==
    /\ returned.op = "kick" /\ returned.ok
    /\ players["P1"].username = Some("Bob")
    /\ players["P1"].name_history = << "Alice" >>
    /\ Len(sanctions) = 3
    /\ sanctions[1].sanction_type = "ban"
    /\ sanctions[2].sanction_type = "username_update"
    /\ sanctions[3].sanction_type = "kick"

\* The record of playfab_id keeps username, last_seen and name history in
\* this step, or is created without them, and no row is added to a table.
IdentityKept(playfab_id) ==
    /\ playfab_id \in DOMAIN players'
    /\ LET old == IF playfab_id \in DOMAIN players THEN players[playfab_id]
                  ELSE NewRecord
       IN  /\ players'[playfab_id].username = old.username
           /\ players'[playfab_id].last_seen = old.last_seen
           /\ players'[playfab_id].name_history = old.name_history
    /\ sanctions' = sanctions
    /\ redflags' = redflags

\* C26: a successful set_note(id, text) returns the record with note
\* text, which is then the stored note, whatever note there was and whether
\* or not the record existed; a successful clear_note(id) returns True and
\* leaves the stored note null; both leave username, last_seen and name
\* history as they were and add no row.
C26_NoteOnly ==
    [][/\ (Returns(1, "set_note") /\ returned'.ok) =>
             /\ sess[1].record.note \in { Some(n) : n \in Notes }
             /\ returned'.obj.note = sess[1].record.note
             /\ players'[sess[1].playfab_id] = returned'.obj
             /\ IdentityKept(sess[1].playfab_id)
       /\ (Returns(1, "clear_note") /\ returned'.ok) =>
             /\ players'[sess[1].playfab_id].note = None
             /\ IdentityKept(sess[1].playfab_id)
      ]_vars

\* C26 witness: Alice was seen, a note was set, overwritten and cleared;
\* the record is Alice's as before and the history has its one row.
C26_Witness ==
    /\ returned.op = "clear_note" /\ returned.ok
    /\ clock = 4
    /\ players["P1"].note = None
    /\ players["P1"].username = Some("Alice")
    /\ players["P1"].last_seen = Some(1)
    /\ Len(sanctions) = 1
    /\ redflags = << >>

\* C26, the record that set_note creates: it has the note and no username.
C26_WitnessCreated ==
    /\ returned.op = "set_note" /\ returned.ok
    /\ returned.obj = [NewRecord EXCEPT !.note = Some("hello")]
    /\ players["P1"] = returned.obj
    /\ sanctions = << >>

\* C29: every 'username_update' row of table sanctions has a previous
\* username that is not empty and differs from the username of the row.
C29_NoInitialRename ==
    \A i \in 1..Len(sanctions) :
        sanctions[i].sanction_type = "username_update" =>
            /\ Truthy(sanctions[i].previous_username)
            /\ sanctions[i].previous_username # sanctions[i].username

\* The operations of create_sanction and create_redflag.
CreateOps == { "redflag" } \cup SanctionTypes

\* C30: a create_sanction or create_redflag call that ends has either
\* written its record change and all its rows and returned the created
\* object, or has written nothing and returned None.
C30_AllOrNothing ==
    [][\A s \in Sessions, op \in CreateOps :
          Returns(s, op) =>
              \/ /\ returned'.ok
                 /\ returned'.obj
                       = IF op = "redflag" THEN redflags'[Len(redflags')]
                         ELSE sanctions'[Len(sanctions')]
                 /\ players' = Flushed(sess[s])
                 /\ sanctions' = sanctions \o sess[s].adds
                 /\ redflags' = redflags \o sess[s].flags
              \/ /\ ~returned'.ok
                 /\ players' = players
                 /\ sanctions' = sanctions
                 /\ redflags' = redflags
      ]_vars

\* The identifier the check compared, as the text handed to the updater:
\* the dot-joined version, else the release tag, else the empty text.
IdentifierText == IF Truthy(RemoteIdentifier) THEN RemoteIdentifier ELSE Some("")

\* C27: when the check spawns the updater, _parse_apply_args of the
\* updater's arguments yields the download URL of the selected asset, the
\* path of the running executable, the identifier the check compared, and
\* as passthrough the arguments of the application, element for element,
\* which hold no --apply-update.
C27_TaskRoundTrip ==
    [][(MainStep /\ lastCheck' = "spawned") =>
          LET a == ParseApplyArgs(proc'.argv)
          IN  /\ InArgv("--apply-update", proc'.argv)
              /\ a.url = pick'.download_url
              /\ a.target = Some(proc.exe)
              /\ a.remote_ver = IdentifierText'
              /\ a.passthrough = proc.argv
              /\ ~InArgv("--apply-update", a.passthrough)
      ]_vars

\* C27 witness: the application was started with arguments that hold "--"
\* and "--remote-version"; the updater is spawned and its task is the
\* selected asset's, with those arguments as passthrough.
C27_Witness ==
    /\ lastCheck = "spawned"
    /\ proc.kind = "updater"
    /\ ParseApplyArgs(proc.argv)
          = [url |-> pick.download_url, target |-> Some(Target),
             remote_ver |-> Some("1.2.0.0"),
             passthrough |-> << "-x", "--", "--remote-version", "9.9.9.9",
                                "--" >>]

\* C27, an asset without version in a release without tag: the identifier
\* handed over is the empty text.
C27_WitnessEmpty ==
    /\ lastCheck = "spawned"
    /\ proc.kind = "updater"
    /\ pick.version_tuple = NoVer
    /\ ~Truthy(pick.release_tag)
    /\ ParseApplyArgs(proc.argv).remote_ver = Some("")
    /\ ParseApplyArgs(proc.argv).passthrough = << "--", "-x" >>

\* Both updaters of the pair have run to their end.
PairDone == pair # << >> /\ \A i \in DOMAIN pair : pair[i].pc = "done"

\* The identifier of the task that brought the file now at the target.
AtTarget(i) == fs[Target] = pair[i].file

\* C28: when two updaters started by two main-role runs work on the same
\* target at the same time, in any interleaving of their download, backup
\* rename, rename-in and state write, then once both have ended the target
\* holds the complete artifact of one of them and the installed identifier of
\* the state file is the identifier of that artifact.
C28_TargetMatchesState ==
    PairDone =>
        /\ \E i \in DOMAIN pair : AtTarget(i)
        /\ Complete(fs[Target])
        /\ \A i \in DOMAIN pair :
              AtTarget(i) =>
                  InstalledId(LoadState(stateFile)) = pair[i].remote_ver

\* Both updaters installed and wrote the state, one artifact each.
C28_Witness ==
    /\ PairDone
    /\ pair[1].file # pair[2].file
    /\ Complete(fs[Target])
    /\ InstalledId(LoadState(stateFile)) \in
          { pair[i].remote_ver : i \in DOMAIN pair }

\* The same with two updaters that were handed the same task.
C28_SameTask ==
    (PairDone /\ pair[1].file = pair[2].file) =>
        /\ AtTarget(1)
        /\ InstalledId(LoadState(stateFile)) = pair[1].remote_ver

=============================================================================
